---- MODULE Spec2Model ----
(***************************************************************************)
(* A model of the WMOS database change tracker: the source normalizer and  *)
(* fingerprint (tracker/code_analyzer.py), the SQLite ledger               *)
(* (database/sqlite_store.py) and the scan cycle that drives them          *)
(* (tracker/change_tracker.py).                                            *)
(*                                                                         *)
(* A source text is a sequence of lexemes.  "SP", "TAB", "NL" and "CRLF"   *)
(* are one space, one tab, "\n" and "\r\n"; "COR" is the text              *)
(* "CREATE OR REPLACE"; "/*", "*/" and "--" are the comment delimiters;    *)
(* "qS", "qT" are the quoted identifiers "S" and "T", "DOT" is "."; every  *)
(* other lexeme is a word.  The regular expressions of the code are        *)
(* evaluated on lexemes, so two adjacent delimiters never overlap.         *)
(***************************************************************************)
EXTENDS Integers, Sequences, FiniteSets, TLC

\* Python's None where a text, a hash, a path or a commit is expected, and where a dict is
None == <<"None">>
NoneDict == [none |-> TRUE]

(* ---- lexemes of a source text ---- *)
Whitespace == {"SP", "NL", "TAB"}
UpperWords == {"X", "Y", "P", "BODY"}
Keywords == {"PROCEDURE", "FUNCTION", "TRIGGER", "VIEW", "PACKAGE", "TYPE"}
QuotedIds == {"qS", "qT"}

upper(t) ==
    CASE t = "x" -> "X"
      [] t = "y" -> "Y"
      [] t = "p" -> "P"
      [] OTHER -> t

IsSpace(t) == t \in Whitespace
IsWordTok(t) == upper(t) \in UpperWords \cup Keywords \cup {"COR"}

obj_types ==
    << <<"PROCEDURE">>, <<"FUNCTION">>, <<"TRIGGER">>, <<"VIEW">>, <<"PACKAGE">>,
       <<"PACKAGE", "SP", "BODY">>, <<"TYPE">>, <<"TYPE", "SP", "BODY">> >>

Drop(s, n) == SubSeq(s, n + 1, Len(s))
Take(s, n) == SubSeq(s, 1, n)

\* index of the first element of s at or after i that satisfies the set, or Len(s)+1
FirstIn(s, i, S) ==
    LET hits == {k \in i..Len(s) : s[k] \in S}
    IN IF hits = {} THEN Len(s) + 1 ELSE CHOOSE k \in hits : \A m \in hits : k <= m

FirstNotIn(s, i, S) ==
    LET hits == {k \in i..Len(s) : s[k] \notin S}
    IN IF hits = {} THEN Len(s) + 1 ELSE CHOOSE k \in hits : \A m \in hits : k <= m

replace_crlf(code) == [i \in 1..Len(code) |-> IF code[i] = "CRLF" THEN "NL" ELSE code[i]]

RECURSIVE sub_block_comments(_)
sub_block_comments(s) ==
    LET i == FirstIn(s, 1, {"/*"})
        j == FirstIn(s, i + 1, {"*/"})
    IN IF i > Len(s) \/ j > Len(s) THEN s
       ELSE Take(s, i - 1) \o <<"SP">> \o sub_block_comments(Drop(s, j))

RECURSIVE sub_line_comments(_)
sub_line_comments(s) ==
    LET i == FirstIn(s, 1, {"--"})
        k == FirstIn(s, i, {"NL"})
    IN IF i > Len(s) THEN s
       ELSE Take(s, i - 1) \o <<"SP">> \o sub_line_comments(Drop(s, k - 1))

\* tokens s[k..k+Len(w)-1] spell w, ignoring case
SpellsAt(s, k, w) ==
    /\ k + Len(w) - 1 <= Len(s)
    /\ \A n \in 1..Len(w) : upper(s[k + n - 1]) = w[n]

\* ^\s*(TYPE\s+\w+) tried at line start i: <<k, e>> = start and end of group 1, or <<0, 0>>
decl_match_at(obj_type, s, i) ==
    LET k == FirstNotIn(s, i, Whitespace)
        a == k + Len(obj_type)
        b == FirstNotIn(s, a, Whitespace)
        e == FirstNotIn(s, b, {t \in {s[n] : n \in 1..Len(s)} : IsWordTok(t)}) - 1
    IN IF /\ (i = 1 \/ s[i - 1] = "NL")
          /\ SpellsAt(s, k, obj_type)
          /\ b > a
          /\ b <= Len(s)
          /\ IsWordTok(s[b])
       THEN <<k, e>> ELSE <<0, 0>>

\* leftmost match starting at or after pos: <<i, k, e>> or <<0, 0, 0>>
decl_search_from(obj_type, s, pos) ==
    LET starts == {i \in pos..Len(s) : decl_match_at(obj_type, s, i) # <<0, 0>>}
    IN IF starts = {} THEN <<0, 0, 0>>
       ELSE LET i == CHOOSE i \in starts : \A m \in starts : i <= m
            IN <<i>> \o decl_match_at(obj_type, s, i)

decl_search(obj_type, s) == decl_search_from(obj_type, s, 1) # <<0, 0, 0>>

\* re.search(CREATE\s+OR\s+REPLACE\s+TYPE)
has_create_or_replace(obj_type, s) ==
    \E c \in 1..Len(s) :
        /\ s[c] = "COR"
        /\ LET k == FirstNotIn(s, c + 1, Whitespace)
           IN k > c + 1 /\ SpellsAt(s, k, obj_type)

\* re.sub(pattern, "CREATE OR REPLACE \1", s), scanning from position pos
RECURSIVE add_prefix_from(_, _, _)
add_prefix_from(obj_type, s, pos) ==
    LET m == decl_search_from(obj_type, s, pos)
    IN IF m = <<0, 0, 0>> THEN SubSeq(s, pos, Len(s))
       ELSE SubSeq(s, pos, m[1] - 1) \o <<"COR", "SP">> \o SubSeq(s, m[2], m[3])
            \o add_prefix_from(obj_type, s, m[3] + 1)

add_prefix(obj_type, s) == add_prefix_from(obj_type, s, 1)

\* one pass of the loop over obj_types: the new value of `normalized`
prefix_step(obj_type, clean_code, normalized) ==
    LET n1 == IF decl_search(obj_type, normalized) /\ ~has_create_or_replace(obj_type, normalized)
              THEN add_prefix(obj_type, normalized) ELSE normalized
    IN IF decl_search(obj_type, clean_code) /\ ~has_create_or_replace(obj_type, clean_code)
       THEN add_prefix(obj_type, clean_code) ELSE n1

RECURSIVE prefix_loop(_, _, _)
prefix_loop(n, clean_code, normalized) ==
    IF n > Len(obj_types) THEN normalized
    ELSE prefix_loop(n + 1, clean_code, prefix_step(obj_types[n], clean_code, normalized))

\* " ".join(s.split())
RECURSIVE join_split(_)
join_split(s) ==
    LET i == FirstNotIn(s, 1, Whitespace)
        j == FirstIn(s, i, Whitespace)
        rest == join_split(Drop(s, j - 1))
    IN IF i > Len(s) THEN <<>>
       ELSE SubSeq(s, i, j - 1) \o (IF rest = <<>> THEN <<>> ELSE <<"SP">> \o rest)

upper_all(s) == [i \in 1..Len(s) |-> upper(s[i])]

\* re.sub('"[A-Z0-9_]+"\.(".*?")', '\1', s)
RECURSIVE sub_schema_qualifier(_)
sub_schema_qualifier(s) ==
    LET hits == {i \in 1..(Len(s) - 2) :
                    s[i] \in QuotedIds /\ s[i + 1] = "DOT" /\ s[i + 2] \in QuotedIds}
    IN IF hits = {} THEN s
       ELSE LET i == CHOOSE i \in hits : \A m \in hits : i <= m
            IN Take(s, i - 1) \o <<s[i + 2]>> \o sub_schema_qualifier(Drop(s, i + 2))

\* re.sub('\s+$', '', s)
RECURSIVE rstrip(_)
rstrip(s) == IF s # <<>> /\ IsSpace(s[Len(s)]) THEN rstrip(Take(s, Len(s) - 1)) ELSE s

\* faulty variant: no test for an absent source, which is read as a text
normalize_code_unguarded(code) ==
    LET clean_code == replace_crlf(code)
        stripped == sub_line_comments(sub_block_comments(clean_code))
        prefixed == prefix_loop(1, clean_code, stripped)
    IN [clean |-> clean_code,
        canonical |-> rstrip(sub_schema_qualifier(upper_all(join_split(prefixed))))]

normalize_code(code) ==
    IF code = None THEN [clean |-> <<>>, canonical |-> <<>>]
    ELSE LET clean_code == replace_crlf(code)
             stripped == sub_line_comments(sub_block_comments(clean_code))
             prefixed == prefix_loop(1, clean_code, stripped)
         IN [clean |-> clean_code,
             canonical |-> rstrip(sub_schema_qualifier(upper_all(join_split(prefixed))))]

hash_code(normalized_code) == <<"md5", normalized_code>>


(* ---- generate_diff: difflib.unified_diff over lines, context n = 3 ---- *)

\* str.splitlines()
RECURSIVE splitlines(_)
splitlines(s) ==
    IF s = <<>> THEN <<>>
    ELSE LET k == FirstIn(s, 1, {"NL", "CRLF"})
         IN <<SubSeq(s, 1, k - 1)>> \o splitlines(Drop(s, k))

Min(x, y) == IF x <= y THEN x ELSE y
Max(x, y) == IF x >= y THEN x ELSE y

\* SequenceMatcher.find_longest_match on a[alo:ahi], b[blo:bhi] (0-based, half open):
\* the longest common block, the earliest in a and then in b among the longest
find_longest_match(a, alo, ahi, b, blo, bhi) ==
    LET blocks == {m \in (alo..(ahi - 1)) \X (blo..(bhi - 1)) \X (1..Min(ahi - alo, bhi - blo)) :
                      /\ m[1] + m[3] <= ahi
                      /\ m[2] + m[3] <= bhi
                      /\ \A n \in 1..m[3] : a[m[1] + n] = b[m[2] + n]}
        Better(m, o) == \/ m[3] > o[3]
                        \/ m[3] = o[3] /\ m[1] < o[1]
                        \/ m[3] = o[3] /\ m[1] = o[1] /\ m[2] <= o[2]
    IN IF blocks = {} THEN <<alo, blo, 0>>
       ELSE CHOOSE m \in blocks : \A o \in blocks : Better(m, o)

\* SequenceMatcher.get_matching_blocks, without the closing sentinel:
\* the blocks left of the longest match m, m, the blocks right of it
RECURSIVE matching_blocks(_, _, _, _, _, _)
RECURSIVE blocks_around(_, _, _, _, _, _, _)
blocks_around(a, alo, ahi, b, blo, bhi, m) ==
    IF m[3] = 0 THEN <<>>
    ELSE (IF alo < m[1] /\ blo < m[2]
          THEN matching_blocks(a, alo, m[1], b, blo, m[2]) ELSE <<>>)
         \o <<m>>
         \o (IF m[1] + m[3] < ahi /\ m[2] + m[3] < bhi
             THEN matching_blocks(a, m[1] + m[3], ahi, b, m[2] + m[3], bhi) ELSE <<>>)

matching_blocks(a, alo, ahi, b, blo, bhi) ==
    blocks_around(a, alo, ahi, b, blo, bhi, find_longest_match(a, alo, ahi, b, blo, bhi))

\* SequenceMatcher.get_opcodes: <<tag, i1, i2, j1, j2>>
RECURSIVE opcodes_from(_, _, _)
opcodes_from(blocks, i, j) ==
    IF blocks = <<>> THEN <<>>
    ELSE LET ai == blocks[1][1]
             bj == blocks[1][2]
             size == blocks[1][3]
             tag == IF i < ai /\ j < bj THEN "replace"
                    ELSE IF i < ai THEN "delete"
                    ELSE IF j < bj THEN "insert" ELSE ""
         IN (IF tag # "" THEN << <<tag, i, ai, j, bj>> >> ELSE <<>>)
            \o (IF size > 0 THEN << <<"equal", ai, ai + size, bj, bj + size>> >> ELSE <<>>)
            \o opcodes_from(Tail(blocks), ai + size, bj + size)

get_opcodes(a, b) ==
    opcodes_from(matching_blocks(a, 0, Len(a), b, 0, Len(b)) \o << <<Len(a), Len(b), 0>> >>, 0, 0)

\* get_grouped_opcodes(3) for texts whose runs of equal lines inside a change are
\* at most 6 lines long: one group, its first and last equal run cut to 3 lines
group_of(codes) ==
    LET n == Len(codes)
        first(c) == IF c[1] = "equal" THEN <<"equal", Max(c[2], c[3] - 3), c[3], Max(c[4], c[5] - 3), c[5]>> ELSE c
        last(c) == IF c[1] = "equal" THEN <<"equal", c[2], Min(c[3], c[2] + 3), c[4], Min(c[5], c[4] + 3)>> ELSE c
    IN IF n = 0 \/ (n = 1 /\ codes[1][1] = "equal") THEN <<>>
       ELSE [k \in 1..n |-> IF k = 1 /\ k = n THEN last(first(codes[k]))
                            ELSE IF k = 1 THEN first(codes[k])
                            ELSE IF k = n THEN last(codes[k]) ELSE codes[k]]

grouped_opcodes(a, b) == group_of(get_opcodes(a, b))

\* _format_range_unified(start, stop)
format_range_unified(start, stop) ==
    LET length == stop - start
    IN IF length = 1 THEN <<ToString(start + 1)>>
       ELSE IF length = 0 THEN <<ToString(start), "0">>
       ELSE <<ToString(start + 1), ToString(length)>>

Prefixed(mark, lines, lo, hi) == [k \in 1..(hi - lo) |-> <<mark>> \o lines[lo + k]]

RECURSIVE hunk_lines(_, _, _)
hunk_lines(group, a, b) ==
    IF group = <<>> THEN <<>>
    ELSE LET c == group[1]
         IN (IF c[1] = "equal" THEN Prefixed("SP", a, c[2], c[3])
             ELSE (IF c[1] \in {"replace", "delete"} THEN Prefixed("-", a, c[2], c[3]) ELSE <<>>)
                  \o (IF c[1] \in {"replace", "insert"} THEN Prefixed("+", b, c[4], c[5]) ELSE <<>>))
            \o hunk_lines(Tail(group), a, b)

\* difflib.unified_diff(a, b, fromfile="previous", tofile="current", lineterm="");
\* "--- previous" is the lexemes "-", "--", "SP", "previous", "+++ current" likewise
diff_of_group(group, a, b) ==
    IF group = <<>> THEN <<>>
    ELSE << <<"-", "--", "SP", "previous">>, <<"+", "++", "SP", "current">>,
            <<"@@">> \o format_range_unified(group[1][2], group[Len(group)][3])
                     \o <<"@@">> \o format_range_unified(group[1][4], group[Len(group)][5]) \o <<"@@">> >>
         \o hunk_lines(group, a, b)

unified_diff(a, b) == diff_of_group(grouped_opcodes(a, b), a, b)

RECURSIVE CountIf(_, _)
CountIf(lines, marks) ==
    IF lines = <<>> THEN 0
    ELSE (IF lines[1] # <<>> /\ lines[1][1] \in marks THEN 1 ELSE 0) + CountIf(Tail(lines), marks)

\* the diff text is kept as its lines: "\n".join(diff_list)
diff_and_count(diff_list) ==
    [diff_text |-> diff_list, changed_lines |-> CountIf(diff_list, {"+", "-"})]

\* faulty variant: the diff taken from the new text to the old one
generate_diff_swapped(old_code, new_code) ==
    diff_and_count(unified_diff(splitlines(IF new_code = None THEN <<>> ELSE new_code),
                                splitlines(IF old_code = None THEN <<>> ELSE old_code)))

generate_diff(old_code, new_code) ==
    diff_and_count(unified_diff(splitlines(IF old_code = None THEN <<>> ELSE old_code),
                                splitlines(IF new_code = None THEN <<>> ELSE new_code)))


(* ---- files written for an object ---- *)

\* CodeAnalyzer.save_to_filesystem: the text written to <schema>/<TYPE>/<name>.sql
save_to_filesystem(object_type, source_code) ==
    IF \E n \in 1..Len(obj_types) : obj_types[n] = object_type
    THEN IF ~has_create_or_replace(object_type, source_code)
         THEN add_prefix(object_type, source_code) ELSE source_code
    ELSE source_code

\* GitManager.save_file: the text written to the working tree
save_file(source_code) == source_code

(* ---- the world the tracker runs in ---- *)

MaxDay == 2
MaxChanges == 3
DaysLookback == 3

ObjP == [schema |-> "WM", object_name |-> "ZP", object_type |-> <<"PROCEDURE">>]
ObjF == [schema |-> "WM", object_name |-> "ZF", object_type |-> <<"FUNCTION">>]
\* find_custom_objects orders by owner, type, name
AllObjects == <<ObjF, ObjP>>
Objects == {AllObjects[n] : n \in 1..Len(AllObjects)}

\* the versions of a source an object can have in the database
SrcV1 == <<"PROCEDURE", "SP", "p", "NL", "x">>
SrcV1w == <<"PROCEDURE", "SP", "p", "CRLF", "NL", "x">>
SrcV2 == <<"PROCEDURE", "SP", "p", "NL", "y">>
SourceTexts == {SrcV1, SrcV1w, SrcV2}
\* ALL_SOURCE has no row for the object (None), or only empty rows (<<>>)
Unfetchable == {None, <<>>}
\* what ALL_SOURCE can hold for an object
SourcesOf(o) == IF o = ObjP THEN Unfetchable \cup {SrcV1, SrcV2} ELSE {SrcV1w}

OldDay == 1 - DaysLookback

VARIABLES
    object_state,      \* table object_state: a set of rows
    object_changes,    \* table object_changes: rows in id order, id = position
    object_source,     \* table object_source: hash -> source_code
    code_dir,          \* CODE_DIR: object -> text of its .sql file, or None
    git_tree,          \* GIT_REPO_PATH working tree: object -> text of its file, or None
    git_log,           \* the commits made: the file list of each
    db_source,         \* ALL_SOURCE: object -> text, or None
    db_modified,       \* ALL_OBJECTS.LAST_DDL_TIME: object -> day
    clock,             \* datetime.now(), to the day
    pc,                \* where run_tracking_cycle stands
    tracker,           \* locals of scan_for_changes and self.today
    loc,               \* locals of the running _process_object call
    pre,               \* history: the ledger and the files when that call began
    processed_source,  \* history: object -> source of its last processing that returned
    cycle_result,      \* what the last run_tracking_cycle returned
    na, nb, nfp,       \* normalizer runs: two sources and their fingerprints
    call, ret,         \* a function called on its own: its arguments and what it returned
    service,           \* locals of run_service, the configuration it was given and the time
    second             \* a second tracker process on the same ledger: where it stands, its locals

ledger == <<object_state, object_changes, object_source>>
files == <<code_dir, git_tree, git_log>>
database == <<db_source, db_modified>>
norm == <<na, nb, nfp, call, second, ret, service>>
vars == <<object_state, object_changes, object_source, code_dir, git_tree, git_log,
          db_source, db_modified, clock, pc, tracker, loc, pre, processed_source,
          cycle_result, na, nb, nfp, call, second, ret, service>>

NoTracker == [today |-> 0, objects |-> <<>>, index |-> 0, changes |-> <<>>,
              git_changed_files |-> <<>>, change_count |-> 0, commit_sha |-> None,
              summary |-> NoneDict,
              connection |-> "closed",  \* self.oracle.connection
              db_conn |-> "closed",     \* self.store.db_conn
              records_before |-> 0]  \* history: the rows of object_changes at scan start

\* faulty variant: the ledger connection is left open
close_database_only(t) == [t EXCEPT !.connection = "closed"]

\* ChangeTracker.close: self.oracle.close(); self.store.close()
close(t) == [t EXCEPT !.connection = "closed", !.db_conn = "closed"]

\* "finally: self.close()": run_tracking_cycle returns, and of the tracker only the
\* two connections matter from then on
returned_tracker(t) ==
    [NoTracker EXCEPT !.connection = close(t).connection, !.db_conn = close(t).db_conn]

NoLoc == [obj |-> NoneDict, last_modified |-> 0, current_source |-> None,
          clean_source |-> None, current_hash |-> None, prev_state |-> NoneDict,
          fs_path |-> None, git_path |-> None, change |-> NoneDict]

\* no second process runs
NoSecond == [pc |-> "idle", objects |-> <<>>, index |-> 0, loc |-> NoLoc,
             changes |-> <<>>, git_changed_files |-> <<>>]

NoSnapshot == [object_state |-> {}, object_changes |-> <<>>, object_source |-> <<>>,
               code_dir |-> <<>>, git_tree |-> <<>>]

Snapshot == [object_state |-> object_state, object_changes |-> object_changes,
             object_source |-> object_source, code_dir |-> code_dir, git_tree |-> git_tree]

EnterCall(entry) == [NoLoc EXCEPT !.obj = entry.obj, !.last_modified = entry.last_modified]

fs_path_of(obj) == <<"CODE_DIR", obj.schema, obj.object_type, obj.object_name>>
git_path_of(obj) == <<obj.schema, obj.object_type, obj.object_name>>

(* ---- SQLiteStore ---- *)

\* faulty variant: the lookup finds no row
get_previous_state_absent(state, source, obj) == NoneDict

\* faulty variant: ORDER BY capture_date ASC, the oldest row of the object
get_previous_state_oldest(state, source, obj) ==
    LET rows == {r \in state : r.obj = obj}
    IN IF rows = {} THEN NoneDict
       ELSE LET result == CHOOSE r \in rows : \A o \in rows : o.capture_date >= r.capture_date
            IN [hash |-> result.hash, capture_date |-> result.capture_date,
                last_modified |-> result.last_modified, file_path |-> result.file_path,
                source_code |-> IF result.hash \in DOMAIN source THEN source[result.hash] ELSE None]

\* get_previous_state: the row of the object with the greatest capture_date
get_previous_state(state, source, obj) ==
    LET rows == {r \in state : r.obj = obj}
    IN IF rows = {} THEN NoneDict
       ELSE LET result == CHOOSE r \in rows : \A o \in rows : o.capture_date <= r.capture_date
            IN [hash |-> result.hash, capture_date |-> result.capture_date,
                last_modified |-> result.last_modified, file_path |-> result.file_path,
                source_code |-> IF result.hash \in DOMAIN source THEN source[result.hash] ELSE None]

\* faulty variant: INSERT OR IGNORE, the row of the day is kept
store_object_state_ignore(state, obj, code_hash, last_modified, file_path, today) ==
    IF \E r \in state : r.obj = obj /\ r.capture_date = today THEN state
    ELSE state \cup {[obj |-> obj, hash |-> code_hash, last_modified |-> last_modified,
                      capture_date |-> today, file_path |-> file_path]}

\* store_object_state: INSERT OR REPLACE on the key (object, capture_date)
store_object_state(state, obj, code_hash, last_modified, file_path, today) ==
    {r \in state : ~(r.obj = obj /\ r.capture_date = today)}
        \cup {[obj |-> obj, hash |-> code_hash, last_modified |-> last_modified,
               capture_date |-> today, file_path |-> file_path]}

\* faulty variant: INSERT OR REPLACE, the text under the hash is overwritten
store_source_code_replace(source, code_hash, source_code) ==
    IF source_code \in {None, <<>>} THEN source
    ELSE [h \in DOMAIN source \cup {code_hash} |->
             IF h = code_hash THEN source_code ELSE source[h]]

\* faulty variant: the text is never written
store_source_code_never(source, code_hash, source_code) == source

\* store_source_code: insert unless the text is empty or the hash is present
store_source_code(source, code_hash, source_code) ==
    IF source_code \in Unfetchable \/ code_hash \in DOMAIN source THEN source
    ELSE source @@ (code_hash :> source_code)

\* faulty variant: the INSERT leaves old_hash out
record_change_no_old(changes, obj, old_hash, new_hash, diff_summary, changed_lines, file_path, today) ==
    Append(changes,
           [id |-> Len(changes) + 1, obj |-> obj, change_date |-> today,
            old_hash |-> None, new_hash |-> new_hash, diff_summary |-> diff_summary,
            changed_lines |-> changed_lines, file_path |-> file_path,
            notified |-> 0, git_commit_sha |-> None])

\* record_change: the row inserted, id = lastrowid
record_change(changes, obj, old_hash, new_hash, diff_summary, changed_lines, file_path, today) ==
    Append(changes,
           [id |-> Len(changes) + 1, obj |-> obj, change_date |-> today,
            old_hash |-> old_hash, new_hash |-> new_hash, diff_summary |-> diff_summary,
            changed_lines |-> changed_lines, file_path |-> file_path,
            notified |-> 0, git_commit_sha |-> None])

\* faulty variant: the commit hash goes into new rows instead of the existing ones
update_changes_with_commit_insert(changes, ids, commit_sha) ==
    changes \o [n \in 1..Len(changes) |-> [changes[n] EXCEPT !.git_commit_sha = commit_sha]]

\* faulty variant: the UPDATE has no WHERE clause, every row gets the commit hash
update_all_with_commit(changes, ids, commit_sha) ==
    [n \in 1..Len(changes) |-> [changes[n] EXCEPT !.git_commit_sha = commit_sha]]

\* update_change_with_commit for every id of ids
update_changes_with_commit(changes, ids, commit_sha) ==
    [n \in 1..Len(changes) |->
        IF n \in ids THEN [changes[n] EXCEPT !.git_commit_sha = commit_sha] ELSE changes[n]]

HoursPerDay == 24

\* strftime("%Y-%m-%d") of a time counted in hours: the day it falls on
date_of(time) == time \div HoursPerDay

\* cutoff_time = now - timedelta(hours); cutoff_date = its date
cutoff_date(now, hours) == date_of(now - hours)

\* the query: WHERE c.notified = 0 AND c.change_date >= cutoff_date
select_unnotified(changes, cutoff) ==
    {n \in 1..Len(changes) : changes[n].notified = 0 /\ changes[n].change_date >= cutoff}

\* get_unnotified_changes with the hour of the day kept: now is counted in hours
get_unnotified_changes_at(changes, now, hours) ==
    select_unnotified(changes, cutoff_date(now, hours))

\* get_unnotified_changes(hours=24) on the day `now`: at any hour of that day the
\* cutoff date is the day before
get_unnotified_changes(changes, now) ==
    get_unnotified_changes_at(changes, now * HoursPerDay, HoursPerDay)

\* faulty variant: only the first id of the batch is updated
mark_first_as_notified(changes, ids) ==
    [n \in 1..Len(changes) |->
        IF n \in ids /\ \A m \in ids : n <= m THEN [changes[n] EXCEPT !.notified = 1]
        ELSE changes[n]]

\* faulty variant: "SET notified = (id IN batch)", the other rows are reset
mark_only_batch_as_notified(changes, ids) ==
    [n \in 1..Len(changes) |->
        [changes[n] EXCEPT !.notified = IF n \in ids THEN 1 ELSE 0]]

\* mark_changes_as_notified
mark_changes_as_notified(changes, ids) ==
    [n \in 1..Len(changes) |->
        IF n \in ids THEN [changes[n] EXCEPT !.notified = 1] ELSE changes[n]]

(* ---- the database changes, time passes ---- *)

\* DDL on an object: its source becomes t, its LAST_DDL_TIME now
Edit(o, t) ==
    /\ pc = "idle"
    /\ t # db_source[o]
    /\ db_source' = [db_source EXCEPT ![o] = t]
    /\ db_modified' = [db_modified EXCEPT ![o] = clock]
    /\ UNCHANGED <<ledger, files, clock, pc, tracker, loc, pre, processed_source,
                   cycle_result, norm>>

\* midnight passes. The day is read by StartScan, record_change, store_object_state and
\* get_unnotified_changes: a midnight anywhere else is one just before the next of these
Tick ==
    /\ clock < MaxDay
    /\ pc \in {"idle", "p_classify", "p_store_state", "summary"}
    /\ clock' = clock + 1
    /\ UNCHANGED <<ledger, files, database, pc, tracker, loc, pre, processed_source,
                   cycle_result, norm>>

(* ---- run_tracking_cycle ---- *)

\* _is_first_run: CODE_DIR holds nothing
is_first_run == \A o \in Objects : code_dir[o] = None

\* faulty variant: the LAST_DDL_TIME condition is missing from the second query
find_custom_objects_unfiltered(first) ==
    [n \in 1..Len(AllObjects) |->
        [obj |-> AllObjects[n], last_modified |-> db_modified[AllObjects[n]]]]

\* find_custom_objects: all objects on a first run, else those modified in the look-back
find_custom_objects(first) ==
    LET Found(o) == first \/ db_modified[o] > clock - DaysLookback
        Entry(o) == [obj |-> o, last_modified |-> db_modified[o]]
    IN [n \in 1..Len(SelectSeq(AllObjects, Found)) |-> Entry(SelectSeq(AllObjects, Found)[n])]

\* faulty variant: total_objects counts the objects that made it into changes
ScanResultOfChanged ==
    IF tracker.objects = <<>>
    THEN [total_objects |-> 0, changed_objects |-> 0, changes |-> <<>>]
    ELSE [total_objects |-> tracker.change_count,
          changed_objects |-> tracker.change_count,
          changes |-> [n \in 1..Len(tracker.changes) |-> tracker.changes[n].id],
          git_commit |-> tracker.commit_sha]

\* the dict scan_for_changes returns; with no object found it has no git_commit
ScanResult ==
    IF tracker.objects = <<>>
    THEN [total_objects |-> 0, changed_objects |-> 0, changes |-> <<>>]
    ELSE [total_objects |-> Len(tracker.objects),
          changed_objects |-> tracker.change_count,
          changes |-> [n \in 1..Len(tracker.changes) |-> tracker.changes[n].id],
          git_commit |-> tracker.commit_sha]

\* oracle.connect() fails: scan_for_changes and run_tracking_cycle return None
ConnectFails ==
    /\ pc = "idle"
    /\ cycle_result' = [returned |-> "None"]
    /\ pc' = "done"
    /\ tracker' = returned_tracker([NoTracker EXCEPT !.db_conn = "open"])
    /\ UNCHANGED <<ledger, files, database, clock, loc, pre, processed_source, norm>>

\* ChangeTracker(config), connect, find the objects, enter the loop
StartScan ==
    /\ pc = "idle"
    /\ LET objects == find_custom_objects(is_first_run)
       IN /\ Len(object_changes) + Len(objects) <= MaxChanges
          /\ tracker' = [NoTracker EXCEPT !.today = clock, !.objects = objects, !.index = 1,
                                          !.db_conn = "open",
                                          !.connection = IF objects = <<>> THEN "closed"
                                                         ELSE "open",
                                          !.records_before = Len(object_changes)]
          /\ IF objects = <<>>
             THEN pc' = "summary" /\ loc' = NoLoc /\ pre' = NoSnapshot
             ELSE pc' = "p_fetch" /\ loc' = EnterCall(objects[1]) /\ pre' = Snapshot
    /\ cycle_result' = [returned |-> "not run"]
    /\ UNCHANGED <<ledger, files, database, clock, processed_source, norm>>

(* ---- _process_object, one step per call it makes ---- *)

\* faulty variant: "if current_source is None", the empty text goes on
is_skipped_absent_only(current_source) == current_source = None

\* "if not current_source": None and the empty text
is_skipped(current_source) == current_source \in Unfetchable

\* fetch_object_source, the skip, normalize_code and hash_code
ProcFetch ==
    /\ pc = "p_fetch"
    /\ LET current_source == db_source[loc.obj]
           n == normalize_code(current_source)
       IN IF is_skipped(current_source)
          THEN /\ loc' = [loc EXCEPT !.current_source = current_source]
               /\ pc' = "p_return"
          ELSE /\ loc' = [loc EXCEPT !.current_source = current_source,
                                     !.clean_source = n.clean,
                                     !.current_hash = hash_code(n.canonical)]
               /\ pc' = "p_store_source"
    /\ UNCHANGED <<ledger, files, database, clock, tracker, pre, processed_source,
                   cycle_result, norm>>

ProcStoreSource ==
    /\ pc = "p_store_source"
    /\ object_source' = store_source_code(object_source, loc.current_hash, loc.clean_source)
    /\ pc' = "p_get_prev"
    /\ UNCHANGED <<object_state, object_changes, files, database, clock, tracker, loc, pre,
                   processed_source, cycle_result, norm>>

ProcGetPrev ==
    /\ pc = "p_get_prev"
    /\ loc' = [loc EXCEPT !.prev_state = get_previous_state(object_state, object_source, loc.obj)]
    /\ pc' = "p_save_fs"
    /\ UNCHANGED <<ledger, files, database, clock, tracker, pre, processed_source,
                   cycle_result, norm>>

ProcSaveFs ==
    /\ pc = "p_save_fs"
    /\ code_dir' = [code_dir EXCEPT ![loc.obj] = save_to_filesystem(loc.obj.object_type, loc.clean_source)]
    /\ loc' = [loc EXCEPT !.fs_path = fs_path_of(loc.obj)]
    /\ pc' = "p_save_git"
    /\ UNCHANGED <<ledger, git_tree, git_log, database, clock, tracker, pre, processed_source,
                   cycle_result, norm>>

ProcSaveGit ==
    /\ pc = "p_save_git"
    /\ git_tree' = [git_tree EXCEPT ![loc.obj] = save_file(loc.clean_source)]
    /\ loc' = [loc EXCEPT !.git_path = git_path_of(loc.obj)]
    /\ pc' = "p_classify"
    /\ UNCHANGED <<ledger, code_dir, git_log, database, clock, tracker, pre, processed_source,
                   cycle_result, norm>>

\* the lines of a diff that start with "+" but not with "+++", at most 10 and a "..." line
changed_content(diff_text) ==
    LET Added(line) == /\ line # <<>> /\ line[1] = "+"
                       /\ ~(Len(line) >= 2 /\ line[2] = "++")
        changed_lines_text == SelectSeq(diff_text, Added)
    IN SubSeq(changed_lines_text, 1, Min(10, Len(changed_lines_text)))
       \o (IF Len(changed_lines_text) > 10 THEN << <<"...">> >> ELSE <<>>)

\* faulty variant: every processed object counts as changed
is_change_always(prev_state, current_hash) == TRUE

\* is the object new or changed?
is_change(prev_state, current_hash) ==
    IF prev_state = NoneDict THEN TRUE ELSE prev_state.hash # current_hash

\* faulty variant: the line count of a new object taken from a diff against nothing
change_details_diffed(prev_state, clean_source, today) ==
    IF prev_state = NoneDict
    THEN [diff_text |-> << <<"New object created on", ToString(today)>> >>,
          changed_lines |-> generate_diff(None, clean_source).changed_lines,
          old_hash |-> None]
    ELSE generate_diff(prev_state.source_code, clean_source) @@ [old_hash |-> prev_state.hash]

\* faulty variant: a previous state without its snapshot text is taken for no state
change_details_as_new(prev_state, clean_source, today) ==
    IF prev_state = NoneDict \/ prev_state.source_code = None
    THEN [diff_text |-> << <<"New object created on", ToString(today)>> >>,
          changed_lines |-> Len(splitlines(clean_source)),
          old_hash |-> None]
    ELSE generate_diff(prev_state.source_code, clean_source) @@ [old_hash |-> prev_state.hash]

\* the diff text, the changed line count and the old hash of a change
change_details(prev_state, clean_source, today) ==
    IF prev_state = NoneDict
    THEN [diff_text |-> << <<"New object created on", ToString(today)>> >>,
          changed_lines |-> Len(splitlines(clean_source)),
          old_hash |-> None]
    ELSE generate_diff(prev_state.source_code, clean_source) @@ [old_hash |-> prev_state.hash]

\* record_change with the details d, and the change dict
record_and_describe(d) ==
    /\ object_changes' = record_change(object_changes, loc.obj, d.old_hash,
                                       loc.current_hash, d.diff_text,
                                       d.changed_lines, loc.fs_path, clock)
    /\ loc' = [loc EXCEPT !.change =
                 [id |-> Len(object_changes) + 1, obj |-> loc.obj,
                  last_modified |-> loc.last_modified,
                  changed_lines |-> d.changed_lines,
                  changed_content |-> changed_content(d.diff_text),
                  file_path |-> loc.fs_path, git_path |-> loc.git_path]]

\* new or changed: record_change and the change dict; unchanged: nothing
ProcClassify ==
    /\ pc = "p_classify"
    /\ IF is_change(loc.prev_state, loc.current_hash)
       THEN record_and_describe(change_details(loc.prev_state, loc.clean_source, tracker.today))
       ELSE UNCHANGED <<object_changes, loc>>
    /\ pc' = "p_store_state"
    /\ UNCHANGED <<object_state, object_source, files, database, clock, tracker, pre,
                   processed_source, cycle_result, norm>>

\* "always store current state"
ProcStoreState ==
    /\ pc = "p_store_state"
    /\ object_state' = store_object_state(object_state, loc.obj, loc.current_hash,
                                          loc.last_modified, loc.fs_path, clock)
    /\ pc' = "p_return"
    /\ UNCHANGED <<object_changes, object_source, files, database, clock, tracker, loc, pre,
                   processed_source, cycle_result, norm>>

\* return change; the loop body collects it and goes to the next object
ProcReturn ==
    /\ pc = "p_return"
    /\ LET collected == IF loc.change # NoneDict
                        THEN [tracker EXCEPT !.changes = Append(@, loc.change),
                                             !.git_changed_files = Append(@, loc.change.git_path),
                                             !.change_count = @ + 1]
                        ELSE tracker
       IN IF tracker.index < Len(tracker.objects)
          THEN /\ tracker' = [collected EXCEPT !.index = @ + 1]
               /\ loc' = EnterCall(tracker.objects[tracker.index + 1])
               /\ pre' = Snapshot
               /\ pc' = "p_fetch"
          ELSE /\ tracker' = collected
               /\ loc' = NoLoc
               /\ pre' = NoSnapshot
               /\ pc' = "commit"
    /\ processed_source' = IF loc.current_source \in Unfetchable THEN processed_source
                           ELSE [processed_source EXCEPT ![loc.obj] = loc.current_source]
    /\ UNCHANGED <<ledger, files, database, clock, cycle_result, norm>>

(* ---- after the loop ---- *)

\* faulty variant: a commit is made although no file changed
NoCommitEmpty ==
    /\ pc = "commit"
    /\ tracker.git_changed_files = <<>>
    /\ git_log' = Append(git_log, <<>>)
    /\ pc' = "summary"
    /\ tracker' = [tracker EXCEPT !.connection = "closed"]
    /\ UNCHANGED <<ledger, code_dir, git_tree, database, clock, loc, pre,
                   processed_source, cycle_result, norm>>

\* no change in this scan: commit_changes is not called
NoCommit ==
    /\ pc = "commit"
    /\ tracker.git_changed_files = <<>>
    /\ pc' = "summary"
    /\ tracker' = [tracker EXCEPT !.connection = "closed"]  \* self.oracle.close()
    /\ UNCHANGED <<ledger, files, database, clock, loc, pre, processed_source,
                   cycle_result, norm>>

\* faulty variant: "git add ." instead of the changed files, the whole tree is committed
CommitSucceedsAll ==
    /\ pc = "commit"
    /\ tracker.git_changed_files # <<>>
    /\ LET commit_sha == <<"sha", ToString(Len(git_log) + 1)>>
           Written(o) == git_tree[o] # None
       IN /\ git_log' = Append(git_log,
                               [n \in 1..Len(SelectSeq(AllObjects, Written)) |->
                                   git_path_of(SelectSeq(AllObjects, Written)[n])])
          /\ object_changes' = update_changes_with_commit(
                 object_changes, {tracker.changes[n].id : n \in 1..Len(tracker.changes)}, commit_sha)
          /\ tracker' = [tracker EXCEPT !.commit_sha = commit_sha, !.connection = "closed"]
    /\ pc' = "summary"
    /\ UNCHANGED <<object_state, object_source, code_dir, git_tree, database, clock, loc, pre,
                   processed_source, cycle_result, norm>>

\* commit_changes returns a hash: every change of the scan gets it
CommitSucceeds ==
    /\ pc = "commit"
    /\ tracker.git_changed_files # <<>>
    /\ LET commit_sha == <<"sha", ToString(Len(git_log) + 1)>>
       IN /\ git_log' = Append(git_log, tracker.git_changed_files)
          /\ object_changes' = update_changes_with_commit(
                 object_changes, {tracker.changes[n].id : n \in 1..Len(tracker.changes)}, commit_sha)
          /\ tracker' = [tracker EXCEPT !.commit_sha = commit_sha, !.connection = "closed"]
    /\ pc' = "summary"
    /\ UNCHANGED <<object_state, object_source, code_dir, git_tree, database, clock, loc, pre,
                   processed_source, cycle_result, norm>>

\* faulty variant: the rows get a commit hash although commit_changes returned None
CommitFailsStamped ==
    /\ pc = "commit"
    /\ tracker.git_changed_files # <<>>
    /\ object_changes' = update_changes_with_commit(
           object_changes, {tracker.changes[n].id : n \in 1..Len(tracker.changes)},
           <<"sha", ToString(Len(git_log) + 1)>>)
    /\ pc' = "summary"
    /\ tracker' = [tracker EXCEPT !.connection = "closed"]
    /\ UNCHANGED <<object_state, object_source, files, database, clock, loc, pre,
                   processed_source, cycle_result, norm>>

\* a git command fails: commit_changes returns None
CommitFails ==
    /\ pc = "commit"
    /\ tracker.git_changed_files # <<>>
    /\ pc' = "summary"
    /\ tracker' = [tracker EXCEPT !.connection = "closed"]  \* self.oracle.close()
    /\ UNCHANGED <<ledger, files, database, clock, loc, pre, processed_source,
                   cycle_result, norm>>

\* the hour is not DAILY_NOTIFICATION_HOUR: the cycle returns the scan results
SkipSummary ==
    /\ pc = "summary"
    /\ cycle_result' = [returned |-> "results"] @@ ScanResult
    /\ pc' = "done"
    /\ tracker' = returned_tracker(tracker)
    /\ UNCHANGED <<ledger, files, database, clock, loc, pre, processed_source, norm>>

\* faulty variant: the changes are marked whatever the webhook answered
send_daily_summary_unchecked(delivered) ==
    /\ pc = "summary"
    /\ LET changes == get_unnotified_changes(object_changes, clock)
       IN /\ object_changes' = mark_changes_as_notified(object_changes, changes)
          /\ tracker' = [returned_tracker(tracker) EXCEPT
                            !.summary = [changes |-> changes, result |-> delivered]]
    /\ cycle_result' = [returned |-> "results"] @@ ScanResult
    /\ pc' = "done"
    /\ UNCHANGED <<object_state, object_source, files, database, clock, loc, pre,
                   processed_source, na, nb, nfp, call, second, service>>

\* send_daily_summary: the changes are marked only when the webhook took the batch;
\* summary keeps the batch that was handed to the notifier and what it answered
send_daily_summary(delivered) ==
    /\ pc = "summary"
    /\ LET changes == get_unnotified_changes(object_changes, clock)
       IN /\ object_changes' = IF delivered
                                THEN mark_changes_as_notified(object_changes, changes)
                                ELSE object_changes
          /\ tracker' = [returned_tracker(tracker) EXCEPT
                            !.summary = [changes |-> changes, result |-> delivered]]
    /\ cycle_result' = [returned |-> "results"] @@ ScanResult
    /\ pc' = "done"
    /\ UNCHANGED <<object_state, object_source, files, database, clock, loc, pre,
                   processed_source, na, nb, nfp, call, second, service>>

\* the hour is DAILY_NOTIFICATION_HOUR: the cycle sends the summary
SendSummary(delivered) ==
    /\ send_daily_summary(delivered)
    /\ UNCHANGED ret

(* ---- failures ---- *)

\* the process dies: what the ledger and the files hold stays, the rest is gone
Crash ==
    /\ pc # "idle"
    /\ pc' = "idle"
    /\ tracker' = NoTracker
    /\ loc' = NoLoc
    /\ pre' = NoSnapshot
    /\ cycle_result' = [returned |-> "not run"]
    /\ UNCHANGED <<ledger, files, database, clock, processed_source, norm>>

\* faulty variant: the exception is swallowed and the cycle returns results
LedgerWriteFailsSilently ==
    /\ \/ pc = "p_store_source" /\ loc.current_hash \notin DOMAIN object_source
       \/ pc = "p_classify" /\ is_change(loc.prev_state, loc.current_hash)
       \/ pc = "p_store_state"
    /\ pc' = "done"
    /\ tracker' = returned_tracker(tracker)
    /\ loc' = NoLoc
    /\ pre' = NoSnapshot
    /\ cycle_result' = [returned |-> "results"] @@ ScanResult
    /\ UNCHANGED <<ledger, files, database, clock, processed_source, norm>>

\* a ledger write of _process_object raises: run_tracking_cycle logs it and returns None
LedgerWriteFails ==
    /\ \/ pc = "p_store_source" /\ loc.current_hash \notin DOMAIN object_source
       \/ pc = "p_classify" /\ is_change(loc.prev_state, loc.current_hash)
       \/ pc = "p_store_state"
    /\ pc' = "done"
    /\ tracker' = returned_tracker(tracker)
    /\ loc' = NoLoc
    /\ pre' = NoSnapshot
    /\ cycle_result' = [returned |-> "None"]
    /\ UNCHANGED <<ledger, files, database, clock, processed_source, norm>>

\* another call of _process_object raises (the fetch, the read of the previous
\* state, a file write): run_tracking_cycle logs it and returns None
ProcessRaises ==
    /\ pc \in {"p_fetch", "p_get_prev", "p_save_fs", "p_save_git"}
    /\ pc' = "done"
    /\ tracker' = returned_tracker(tracker)
    /\ loc' = NoLoc
    /\ pre' = NoSnapshot
    /\ cycle_result' = [returned |-> "None"]
    /\ UNCHANGED <<ledger, files, database, clock, processed_source, norm>>

\* send_daily_summary raises (the ledger read or the marking fails):
\* run_tracking_cycle logs it and returns None
NotificationRaises ==
    /\ pc = "summary"
    /\ pc' = "done"
    /\ tracker' = returned_tracker(tracker)
    /\ cycle_result' = [returned |-> "None"]
    /\ UNCHANGED <<ledger, files, database, clock, loc, pre, processed_source, norm>>

\* run_single_scan: the exit status for what run_tracking_cycle returned
run_single_scan(results) == IF results.returned = "results" THEN 0 ELSE 1

\* run_service: the result is dropped, the service sleeps until the next cycle
cycle_over ==
    /\ pc = "done"
    /\ pc' = "idle"
    /\ cycle_result' = [returned |-> "not run"]
    /\ tracker' = NoTracker
    /\ UNCHANGED <<ledger, files, database, clock, loc, pre, processed_source,
                   na, nb, nfp, call, second, ret>>

\* the cycle returned; when the next one starts is not told here
Sleep ==
    /\ cycle_over
    /\ UNCHANGED service

(* ---- specifications ---- *)

InitLedger ==
    /\ object_state = {}
    /\ object_changes = <<>>
    /\ object_source = <<>>
    /\ code_dir = [o \in Objects |-> None]
    /\ git_tree = [o \in Objects |-> None]
    /\ git_log = <<>>
    /\ clock = 1
    /\ pc = "idle"
    /\ tracker = NoTracker
    /\ loc = NoLoc
    /\ pre = NoSnapshot
    /\ processed_source = [o \in Objects |-> None]
    /\ cycle_result = [returned |-> "not run"]
    /\ second = NoSecond

Init ==
    /\ InitLedger
    /\ db_source \in [Objects -> Unfetchable \cup SourceTexts]
    /\ \A o \in Objects : db_source[o] \in SourcesOf(o)
    /\ db_modified = [o \in Objects |-> OldDay]
    /\ na = <<>> /\ nb = <<>> /\ nfp = NoneDict
    /\ call = NoneDict /\ ret = NoneDict
    /\ service = NoneDict

Environment ==
    \/ \E o \in Objects : \E t \in SourcesOf(o) : Edit(o, t)
    \/ Tick

Cycle ==
    \/ ConnectFails
    \/ StartScan
    \/ ProcFetch
    \/ ProcStoreSource
    \/ ProcGetPrev
    \/ ProcSaveFs
    \/ ProcSaveGit
    \/ ProcClassify
    \/ ProcStoreState
    \/ ProcReturn
    \/ NoCommit
    \/ CommitSucceeds
    \/ CommitFails
    \/ SkipSummary
    \/ \E delivered \in BOOLEAN : SendSummary(delivered)
    \/ Sleep

Next == Environment \/ Cycle \/ Crash \/ LedgerWriteFails

Spec == Init /\ [][Next]_vars

\* no crash and no failing ledger write
NextCrashFree == Environment \/ Cycle

SpecCrashFree == Init /\ [][NextCrashFree]_vars

\* the process lives on, but a call inside _process_object may raise; all of it
\* within one day
NextFailures ==
    \/ \E o \in Objects : \E t \in SourcesOf(o) : Edit(o, t)
    \/ Cycle
    \/ LedgerWriteFails
    \/ ProcessRaises

SpecFailures == Init /\ [][NextFailures]_vars

\* every way run_tracking_cycle comes back: with results, after a failed connect,
\* after an exception in the scan or in the notification
NextOutcomes ==
    \/ NextFailures
    \/ NotificationRaises

SpecOutcomes == Init /\ [][NextOutcomes]_vars

\* a call inside _process_object may raise and the process may die at any point
NextInterrupted ==
    \/ NextFailures
    \/ Crash

SpecInterrupted == Init /\ [][NextInterrupted]_vars

(* ---- the service keeps running, and only the first scan's commit can fail ---- *)

\* commit_changes returns None in a scan that began on an empty ledger
CommitFailsFirst ==
    /\ tracker.records_before = 0
    /\ CommitFails

\* run_tracking_cycle with the database reachable and git working after the first scan
RetryCycle ==
    \/ StartScan
    \/ ProcFetch
    \/ ProcStoreSource
    \/ ProcGetPrev
    \/ ProcSaveFs
    \/ ProcSaveGit
    \/ ProcClassify
    \/ ProcStoreState
    \/ ProcReturn
    \/ NoCommit
    \/ CommitSucceeds
    \/ CommitFailsFirst
    \/ SkipSummary
    \/ \E delivered \in BOOLEAN : SendSummary(delivered)
    \/ Sleep

NextRetry ==
    \/ \E o \in Objects : \E t \in SourcesOf(o) : Edit(o, t)
    \/ RetryCycle

\* the steps of the cycle but the fetch, the export and the classification
RetrySteps ==
    \/ StartScan
    \/ ProcStoreSource
    \/ ProcGetPrev
    \/ ProcSaveGit
    \/ ProcStoreState
    \/ ProcReturn
    \/ NoCommit
    \/ CommitSucceeds
    \/ CommitFailsFirst
    \/ SkipSummary
    \/ \E delivered \in BOOLEAN : SendSummary(delivered)
    \/ Sleep

\* the loop of run_service goes on for ever: a step of the cycle that can be taken
\* is taken. ProcFetch, ProcSaveFs and ProcClassify can be taken exactly where pc
\* names them and each leaves that place, so weak fairness of each of the three is
\* that pc is again and again not there
SpecRetry ==
    /\ Init
    /\ [][NextRetry]_vars
    /\ WF_vars(RetrySteps)
    /\ []<>(pc \notin {"p_fetch", "p_save_fs", "p_classify"})
    /\ []<>(pc # "idle")  \* and the next cycle always starts: MaxChanges stops no run

(* ---- a ledger whose snapshot store was emptied ---- *)

\* the ledger and the files after a scan of day 0 that found ZP with the source SrcV1,
\* and the table object_source with no row left; ZP was modified since
InitEmptied ==
    /\ object_state = store_object_state({}, ObjP, hash_code(normalize_code(SrcV1).canonical),
                                         OldDay, fs_path_of(ObjP), 0)
    /\ object_changes = record_change(<<>>, ObjP, None,
                                      hash_code(normalize_code(SrcV1).canonical),
                                      change_details(NoneDict, SrcV1, 0).diff_text,
                                      change_details(NoneDict, SrcV1, 0).changed_lines,
                                      fs_path_of(ObjP), 0)
    /\ object_source = <<>>
    /\ code_dir = [o \in Objects |->
                      IF o = ObjP THEN save_to_filesystem(ObjP.object_type, SrcV1) ELSE None]
    /\ git_tree = [o \in Objects |-> IF o = ObjP THEN save_file(SrcV1) ELSE None]
    /\ git_log = <<>>
    /\ clock = 1
    /\ pc = "idle"
    /\ tracker = NoTracker
    /\ loc = NoLoc
    /\ pre = NoSnapshot
    /\ processed_source = [o \in Objects |-> IF o = ObjP THEN SrcV1 ELSE None]
    /\ cycle_result = [returned |-> "not run"]
    /\ second = NoSecond
    /\ db_source \in [Objects -> {SrcV1, SrcV2, SrcV1w}]
    /\ db_source[ObjP] \in {SrcV1, SrcV2}
    /\ db_source[ObjF] = SrcV1w
    /\ db_modified = [o \in Objects |-> IF o = ObjP THEN 1 ELSE OldDay]
    /\ na = <<>> /\ nb = <<>> /\ nfp = NoneDict
    /\ call = NoneDict /\ ret = NoneDict
    /\ service = NoneDict

SpecEmptied == InitEmptied /\ [][NextCrashFree]_vars

(* ---- normalizer runs: two sources that differ in comment content ---- *)

MaxLen == 5
NormAlphabet == {"PROCEDURE", "COR", "SP", "NL", "p", "--", "/*", "*/"}
NormSources == UNION {[1..n -> NormAlphabet] : n \in 0..MaxLen}

\* the positions of s from i on that are comment content, as PL/SQL reads the text:
\* after "--" up to the end of the line, between "/*" and the "*/" that closes it
RECURSIVE comment_scan(_, _, _)
comment_scan(s, i, mode) ==
    IF i > Len(s) THEN {}
    ELSE IF mode = "line"
         THEN IF s[i] \in {"NL", "CRLF"} THEN comment_scan(s, i + 1, "code")
              ELSE {i} \cup comment_scan(s, i + 1, "line")
    ELSE IF mode = "block"
         THEN IF s[i] = "*/" THEN comment_scan(s, i + 1, "code")
              ELSE {i} \cup comment_scan(s, i + 1, "block")
    ELSE IF s[i] = "--" THEN comment_scan(s, i + 1, "line")
    ELSE IF s[i] = "/*" /\ (\E j \in (i + 1)..Len(s) : s[j] = "*/")
         THEN comment_scan(s, i + 1, "block")
    ELSE comment_scan(s, i + 1, "code")

CommentContent(s) == comment_scan(s, 1, "code")

\* one lexeme of a comment of nb becomes another word
EditComment(i, w) ==
    /\ nfp = NoneDict
    /\ i \in CommentContent(nb)
    /\ nb[i] \notin {"NL", "CRLF", "--", "/*", "*/"}
    /\ w # nb[i]
    /\ nb' = [nb EXCEPT ![i] = w]
    /\ UNCHANGED <<ledger, files, database, clock, pc, tracker, loc, pre, processed_source,
                   cycle_result, na, nfp, call, second, ret, service>>

\* current_hash = hash_code(normalize_code(current_source)[1]), for both sources
ApplyNormalize ==
    /\ nfp = NoneDict
    /\ nfp' = [a |-> hash_code(normalize_code(na).canonical),
               b |-> hash_code(normalize_code(nb).canonical)]
    /\ UNCHANGED <<ledger, files, database, clock, pc, tracker, loc, pre, processed_source,
                   cycle_result, na, nb, call, second, ret, service>>

InitNorm ==
    /\ InitLedger
    /\ db_source = [o \in Objects |-> None]
    /\ db_modified = [o \in Objects |-> OldDay]
    /\ na \in NormSources
    /\ nb = na
    /\ nfp = NoneDict
    /\ call = NoneDict /\ ret = NoneDict
    /\ service = NoneDict

NextNorm ==
    \/ \E i \in 1..MaxLen, w \in {"x", "y"} : EditComment(i, w)
    \/ ApplyNormalize

SpecNorm == InitNorm /\ [][NextNorm]_vars

(* ---- normalizer runs: two sources that differ in whitespace ---- *)

\* a text without comments in which whitespace separates every two other lexemes
WellSpaced(s) ==
    /\ \A i \in 1..Len(s) : s[i] \notin {"--", "/*", "*/"}
    /\ \A i \in 1..(Len(s) - 1) : s[i] \in Whitespace \/ s[i + 1] \in Whitespace

\* s with the lexeme w put in before position i
InsertAt(s, i, w) == SubSeq(s, 1, i - 1) \o <<w>> \o SubSeq(s, i, Len(s))

\* one whitespace run of nb changes its kind (a lexeme of it becomes another one) or
\* its length (a lexeme is added to it); the runs before and after the text count
EditWhitespace(i, w, longer) ==
    /\ nfp = NoneDict
    /\ WellSpaced(nb)
    /\ IF longer
       THEN /\ Len(nb) < MaxLen
            /\ i \in 1..(Len(nb) + 1)
            /\ IF i = 1 \/ i = Len(nb) + 1 THEN TRUE
               ELSE nb[i] \in Whitespace \/ nb[i - 1] \in Whitespace
            /\ nb' = InsertAt(nb, i, w)
       ELSE /\ i \in 1..Len(nb)
            /\ nb[i] \in Whitespace
            /\ w # nb[i]
            /\ nb' = [nb EXCEPT ![i] = w]
    /\ UNCHANGED <<ledger, files, database, clock, pc, tracker, loc, pre, processed_source,
                   cycle_result, na, nfp, call, second, ret, service>>

NextWhitespace ==
    \/ \E i \in 1..(MaxLen + 1), w \in Whitespace, longer \in BOOLEAN : EditWhitespace(i, w, longer)
    \/ ApplyNormalize

SpecWhitespace == InitNorm /\ [][NextWhitespace]_vars

(* ---- normalizer runs: a bare declaration and the same with CREATE OR REPLACE ---- *)

MaxBody == 3
BodyAlphabet == {"SP", "NL", "x", "p", "--", "PROCEDURE"}
Bodies == UNION {[1..n -> BodyAlphabet] : n \in 0..MaxBody}

\* a source that begins with the bare declaration <TYPE> <NAME>
BareDeclaration(t, body) == obj_types[t] \o <<"SP", "p">> \o body

CreateOrReplace(code) == <<"COR", "SP">> \o code

InitPrefix ==
    /\ InitLedger
    /\ db_source = [o \in Objects |-> None]
    /\ db_modified = [o \in Objects |-> OldDay]
    /\ \E t \in 1..Len(obj_types), body \in Bodies : na = BareDeclaration(t, body)
    /\ nb = na
    /\ nfp = NoneDict
    /\ call = NoneDict /\ ret = NoneDict
    /\ service = NoneDict

\* nb becomes the text of na with CREATE OR REPLACE put in front of it
AddCreateOrReplace ==
    /\ nfp = NoneDict
    /\ nb = na
    /\ nb' = CreateOrReplace(na)
    /\ UNCHANGED <<ledger, files, database, clock, pc, tracker, loc, pre, processed_source,
                   cycle_result, na, nfp, call, second, ret, service>>

NextPrefix ==
    \/ AddCreateOrReplace
    \/ ApplyNormalize

SpecPrefix == InitPrefix /\ [][NextPrefix]_vars

(* ---- generate_diff called on two texts ---- *)

MaxText == 3
DiffTexts == UNION {[1..n -> {"x", "y", "NL"}] : n \in 0..MaxText}

\* the state in which nothing but call and ret is in use
Standalone ==
    /\ InitLedger
    /\ db_source = [o \in Objects |-> None]
    /\ db_modified = [o \in Objects |-> OldDay]
    /\ na = <<>> /\ nb = <<>> /\ nfp = NoneDict
    /\ ret = NoneDict
    /\ service = NoneDict

InitDiff ==
    /\ Standalone
    /\ call \in [old_code : DiffTexts \cup {None}, new_code : DiffTexts \cup {None}]

\* diff_text, changed_lines = CodeAnalyzer.generate_diff(old_source, clean_source)
ApplyDiff ==
    /\ ret = NoneDict
    /\ ret' = generate_diff(call.old_code, call.new_code)
    /\ UNCHANGED <<ledger, files, database, clock, pc, tracker, loc, pre, processed_source,
                   cycle_result, na, nb, nfp, call, second, service>>

SpecDiff == InitDiff /\ [][ApplyDiff]_vars

(* ---- the preview of the diff of two texts ---- *)

PreviewTexts == UNION {[1..n -> {"x", "++", "NL"}] : n \in 0..MaxText}

InitPreview ==
    /\ Standalone
    /\ call \in [old_code : PreviewTexts, new_code : PreviewTexts]

\* _process_object from generate_diff to the change object: the diff of the stored
\* and the clean source, and the preview taken from the lines of that diff
ApplyPreview ==
    /\ ret = NoneDict
    /\ ret' = [diff_text |-> generate_diff(call.old_code, call.new_code).diff_text,
               changed_content |->
                   changed_content(generate_diff(call.old_code, call.new_code).diff_text)]
    /\ UNCHANGED <<ledger, files, database, clock, pc, tracker, loc, pre, processed_source,
                   cycle_result, na, nb, nfp, call, second, service>>

SpecPreview == InitPreview /\ [][ApplyPreview]_vars

(* ---- normalize_code called on a source or on no source ---- *)

InitNormalize ==
    /\ Standalone
    /\ call \in [code : Bodies \cup {None}]

\* clean_source, normalized_source = CodeAnalyzer.normalize_code(current_source)
CallNormalize ==
    /\ ret = NoneDict
    /\ ret' = normalize_code(call.code)
    /\ UNCHANGED <<ledger, files, database, clock, pc, tracker, loc, pre, processed_source,
                   cycle_result, na, nb, nfp, call, second, service>>

SpecNormalize == InitNormalize /\ [][CallNormalize]_vars

(* ---- the daily summary on a ledger that earlier cycles filled ---- *)

Yesterday == 0

\* a row record_change wrote for ObjF on day `day`, its notified column as it is now
ChangeRow(day, notified) ==
    [record_change(<<>>, ObjF, None, hash_code(normalize_code(SrcV1w).canonical),
                   <<>>, 0, fs_path_of(ObjF), day)[1] EXCEPT !.notified = notified]

\* the object_changes tables of up to MaxChanges rows, the ids in insertion order and
\* the dates not decreasing
ChangeTables ==
    UNION {{[n \in 1..len |-> [ChangeRow(days[n], flags[n]) EXCEPT !.id = n]] :
               days \in {d \in [1..len -> {Yesterday, 1}] :
                            \A n \in 1..(len - 1) : d[n] <= d[n + 1]},
               flags \in [1..len -> {0, 1}]} : len \in 0..(MaxChanges - 1)}

\* ObjF was exported by an earlier scan and nothing was modified since: every scan
\* finds no object and the cycle goes on to the hour check
ExportedBefore ==
    /\ object_state = {}
    /\ object_source = <<>>
    /\ code_dir = [o \in Objects |->
                      IF o = ObjF
                      THEN save_to_filesystem(ObjF.object_type, normalize_code(SrcV1w).clean)
                      ELSE None]
    /\ git_tree = [o \in Objects |-> None]
    /\ git_log = <<>>
    /\ pc = "idle"
    /\ tracker = NoTracker
    /\ loc = NoLoc
    /\ pre = NoSnapshot
    /\ processed_source = [o \in Objects |-> None]
    /\ cycle_result = [returned |-> "not run"]
    /\ second = NoSecond
    /\ db_source = [o \in Objects |-> IF o = ObjF THEN SrcV1w ELSE None]
    /\ db_modified = [o \in Objects |-> OldDay]
    /\ na = <<>> /\ nb = <<>> /\ nfp = NoneDict
    /\ call = NoneDict

InitNotify ==
    /\ ExportedBefore
    /\ object_changes \in ChangeTables
    /\ clock = 1
    /\ ret = NoneDict
    /\ service = NoneDict

\* the cycle sends the summary; ret keeps the attempt (the batch, the answer, the day)
\* until the next attempt
SummaryAttempt(delivered) ==
    /\ send_daily_summary(delivered)
    /\ ret' = [summary |-> tracker'.summary, day |-> clock]

NextNotify ==
    \/ Tick
    \/ StartScan
    \/ SkipSummary
    \/ \E delivered \in BOOLEAN : SummaryAttempt(delivered)
    \/ Sleep

SpecNotify == InitNotify /\ [][NextNotify]_vars

(* ---- get_unnotified_changes on rows whose hour of recording is known ---- *)

\* hours counted from midnight of day 0: around midnight and midday of three days
Times == {0, 1, 12, 23, 24, 25, 36, 47, 48, 49}

MaxRows == 3

\* the rows record_change wrote at the times made_at, notified as flags tell
TableOf(made_at, flags) ==
    [n \in 1..Len(made_at) |->
        [ChangeRow(date_of(made_at[n]), flags[n]) EXCEPT !.id = n]]

InitWindow ==
    /\ Standalone
    /\ call \in UNION {[made_at : [1..len -> Times], flags : [1..len -> {0, 1}],
                        now : Times, hours : {12, HoursPerDay}] : len \in 0..MaxRows}
    /\ \A n \in 1..Len(call.made_at) :
          /\ call.made_at[n] <= call.now
          /\ n < Len(call.made_at) => call.made_at[n] <= call.made_at[n + 1]

\* changes = store.get_unnotified_changes(hours)
ApplyWindow ==
    /\ ret = NoneDict
    /\ ret' = [changes |-> get_unnotified_changes_at(TableOf(call.made_at, call.flags),
                                                     call.now, call.hours)]
    /\ UNCHANGED <<ledger, files, database, clock, pc, tracker, loc, pre, processed_source,
                   cycle_result, na, nb, nfp, call, second, service>>

SpecWindow == InitWindow /\ [][ApplyWindow]_vars

(* ---- calculate_next_runtime ---- *)

\* the instants told apart within one hour; a time is counted in these from
\* midnight of day 0
SubHour == 3

MaxInterval == 25

\* now.hour
hour_of(time) == (time \div SubHour) % HoursPerDay

\* now.replace(hour=hour, minute=0, second=0, microsecond=0)
replace_hour(time, hour) ==
    ((time \div (SubHour * HoursPerDay)) * HoursPerDay + hour) * SubHour

\* datetime.timedelta(hours=hours)
timedelta_hours(hours) == hours * SubHour

\* what is returned once next_time is known
not_in_the_past(next_time, now, interval_hours) ==
    IF next_time <= now THEN next_time + timedelta_hours(interval_hours) ELSE next_time

\* faulty variant: the wrap to hour 0 stays on the same day
calculate_next_runtime_same_day(now, interval_hours) ==
    not_in_the_past(
        IF (hour_of(now) \div interval_hours + 1) * interval_hours >= HoursPerDay
        THEN replace_hour(now, 0)
        ELSE replace_hour(now, (hour_of(now) \div interval_hours + 1) * interval_hours),
        now, interval_hours)

\* calculate_next_runtime(interval_hours) called at the time now
calculate_next_runtime(now, interval_hours) ==
    not_in_the_past(
        IF (hour_of(now) \div interval_hours + 1) * interval_hours >= HoursPerDay
        THEN replace_hour(now, 0) + timedelta_hours(HoursPerDay)
        ELSE replace_hour(now, (hour_of(now) \div interval_hours + 1) * interval_hours),
        now, interval_hours)

InitRuntime ==
    /\ Standalone
    /\ call \in [now : 0..(MaxDay * HoursPerDay * SubHour - 1),
                  interval_hours : 1..MaxInterval]

\* next_runtime = calculate_next_runtime(scan_interval)
ApplyRuntime ==
    /\ ret = NoneDict
    /\ ret' = [next_time |-> calculate_next_runtime(call.now, call.interval_hours)]
    /\ UNCHANGED <<ledger, files, database, clock, pc, tracker, loc, pre, processed_source,
                   cycle_result, na, nb, nfp, call, second, service>>

SpecRuntime == InitRuntime /\ [][ApplyRuntime]_vars

(* ---- run_service: the cycles of a service that keeps running ---- *)

\* SCAN_INTERVAL and DAILY_NOTIFICATION_HOUR: the defaults and two more
ScanIntervals == {1, 3}
NotificationHours == {0, 9, 10}

\* the day a time counted in instants falls on
day_of(time) == time \div (SubHour * HoursPerDay)

\* the service starts at some instant of day 1; ret counts the summaries sent on
\* the running day and tells whether the service ran since that day's midnight
ServiceStarts ==
    /\ service \in [scan_interval : ScanIntervals, notification_hour : NotificationHours,
                     now : (SubHour * HoursPerDay)..(2 * SubHour * HoursPerDay - 1),
                     scheduled : {FALSE}, next_runtime : {0}]
    /\ clock = day_of(service.now)
    /\ ret = [sent |-> 0, whole_day |-> FALSE]

InitService ==
    /\ ExportedBefore
    /\ object_changes = <<>>
    /\ ServiceStarts

\* "if next_runtime is None or now >= next_runtime": the cycle is due
is_due == IF service.scheduled THEN service.now >= service.next_runtime ELSE TRUE

\* time.sleep: an instant passes while no cycle is due
Pass ==
    /\ pc = "idle"
    /\ ~is_due
    /\ service.now + 1 < (MaxDay + 1) * SubHour * HoursPerDay
    /\ service' = [service EXCEPT !.now = @ + 1]
    /\ clock' = day_of(service.now + 1)
    /\ ret' = IF day_of(service.now + 1) # day_of(service.now)
              THEN [sent |-> 0, whole_day |-> TRUE]
              ELSE ret
    /\ UNCHANGED <<ledger, files, database, pc, tracker, loc, pre, processed_source,
                   cycle_result, na, nb, nfp, call, second>>

\* tracker = ChangeTracker(config); tracker.run_tracking_cycle(): the scan
RunCycle ==
    /\ is_due
    /\ StartScan

\* "if current_hour == notification_hour"; the cycle is over within the instant
\* in which it began
is_notification_hour == hour_of(service.now) = service.notification_hour

HourCheckSkips ==
    /\ ~is_notification_hour
    /\ SkipSummary

HourCheckSends(delivered) ==
    /\ is_notification_hour
    /\ send_daily_summary(delivered)
    /\ ret' = [ret EXCEPT !.sent = @ + 1]

\* next_runtime = calculate_next_runtime(scan_interval)
Schedule ==
    /\ cycle_over
    /\ service' = [service EXCEPT
                      !.scheduled = TRUE,
                      !.next_runtime = calculate_next_runtime(service.now, service.scan_interval)]

NextService ==
    \/ Pass
    \/ RunCycle
    \/ HourCheckSkips
    \/ \E delivered \in BOOLEAN : HourCheckSends(delivered)
    \/ Schedule

SpecService == InitService /\ [][NextService]_vars

(* ---- the service while the database may be unreachable ---- *)

\* one row recorded on day 1 waits for the summary
InitOutage ==
    /\ ExportedBefore
    /\ object_changes = <<[ChangeRow(1, 0) EXCEPT !.id = 1]>>
    /\ ServiceStarts

\* the cycle is due and oracle.connect() fails
RunCycleUnconnected ==
    /\ is_due
    /\ ConnectFails

NextOutage == NextService \/ RunCycleUnconnected

SpecOutage == InitOutage /\ [][NextOutage]_vars

(* ---- the service with a webhook that takes every batch ---- *)

\* ZP was created in the database on day 1, before the service starts
InitDelivering ==
    /\ InitLedger
    /\ code_dir = [o \in Objects |-> None]
    /\ db_source = [o \in Objects |-> IF o = ObjP THEN SrcV1 ELSE None]
    /\ db_modified = [o \in Objects |-> IF o = ObjP THEN 1 ELSE OldDay]
    /\ na = <<>> /\ nb = <<>> /\ nfp = NoneDict
    /\ call = NoneDict
    /\ ServiceStarts

NextDelivering ==
    \/ Pass
    \/ RunCycle
    \/ ProcFetch
    \/ ProcStoreSource
    \/ ProcGetPrev
    \/ ProcSaveFs
    \/ ProcSaveGit
    \/ ProcClassify
    \/ ProcStoreState
    \/ ProcReturn
    \/ NoCommit
    \/ CommitSucceeds
    \/ HourCheckSkips
    \/ HourCheckSends(TRUE)
    \/ Schedule

SpecDelivering == InitDelivering /\ [][NextDelivering]_vars

(* ---- a second tracker process on the same ledger and the same files ---- *)

\* what the first process holds is not touched by the second
FirstProcess == <<pc, tracker, loc, pre, processed_source, cycle_result>>
NotTheLedger == <<database, clock, FirstProcess, na, nb, nfp, call, ret, service>>

\* the second process is started (a single scan): ChangeTracker(config), connect,
\* find the objects, enter the loop
SecondStart ==
    /\ second.pc = "idle"
    /\ LET objects == find_custom_objects(is_first_run)
       IN /\ Len(object_changes) + Len(objects) <= MaxChanges
          /\ second' = IF objects = <<>>
                       THEN [NoSecond EXCEPT !.pc = "exited"]
                       ELSE [NoSecond EXCEPT !.pc = "p_fetch", !.objects = objects,
                                             !.index = 1, !.loc = EnterCall(objects[1])]
    /\ UNCHANGED <<ledger, files, NotTheLedger>>

\* the call of the second process returns: the loop body collects the change and
\* goes to the next object, or to the commit
second_returns(s) ==
    IF s.index < Len(s.objects)
    THEN [s EXCEPT !.changes = IF s.loc.change # NoneDict THEN Append(@, s.loc.change) ELSE @,
                   !.git_changed_files = IF s.loc.change # NoneDict
                                         THEN Append(@, s.loc.change.git_path) ELSE @,
                   !.index = @ + 1,
                   !.loc = EnterCall(s.objects[s.index + 1]),
                   !.pc = "p_fetch"]
    ELSE [s EXCEPT !.changes = IF s.loc.change # NoneDict THEN Append(@, s.loc.change) ELSE @,
                   !.git_changed_files = IF s.loc.change # NoneDict
                                         THEN Append(@, s.loc.change.git_path) ELSE @,
                   !.loc = NoLoc,
                   !.pc = "commit"]

\* fetch_object_source, the skip, normalize_code and hash_code
SecondFetch ==
    /\ second.pc = "p_fetch"
    /\ LET current_source == db_source[second.loc.obj]
           n == normalize_code(current_source)
       IN second' = IF is_skipped(current_source)
                    THEN second_returns(second)
                    ELSE [second EXCEPT !.loc.current_source = current_source,
                                        !.loc.clean_source = n.clean,
                                        !.loc.current_hash = hash_code(n.canonical),
                                        !.pc = "p_store_source"]
    /\ UNCHANGED <<ledger, files, NotTheLedger>>

SecondStoreSource ==
    /\ second.pc = "p_store_source"
    /\ object_source' = store_source_code(object_source, second.loc.current_hash,
                                          second.loc.clean_source)
    /\ second' = [second EXCEPT !.pc = "p_get_prev"]
    /\ UNCHANGED <<object_state, object_changes, files, NotTheLedger>>

SecondGetPrev ==
    /\ second.pc = "p_get_prev"
    /\ second' = [second EXCEPT
                     !.loc.prev_state = get_previous_state(object_state, object_source,
                                                           second.loc.obj),
                     !.pc = "p_save"]
    /\ UNCHANGED <<ledger, files, NotTheLedger>>

\* save_to_filesystem and save_file
SecondSaveFiles ==
    /\ second.pc = "p_save"
    /\ code_dir' = [code_dir EXCEPT ![second.loc.obj] =
                       save_to_filesystem(second.loc.obj.object_type, second.loc.clean_source)]
    /\ git_tree' = [git_tree EXCEPT ![second.loc.obj] = save_file(second.loc.clean_source)]
    /\ second' = [second EXCEPT !.loc.fs_path = fs_path_of(second.loc.obj),
                                !.loc.git_path = git_path_of(second.loc.obj),
                                !.pc = "p_classify"]
    /\ UNCHANGED <<ledger, git_log, NotTheLedger>>

\* record_change with the details d, and the change dict, in the second process
second_records(d) ==
    /\ object_changes' = record_change(object_changes, second.loc.obj, d.old_hash,
                                       second.loc.current_hash, d.diff_text,
                                       d.changed_lines, second.loc.fs_path, clock)
    /\ second' = [second EXCEPT
                     !.loc.change = [id |-> Len(object_changes) + 1, obj |-> second.loc.obj,
                                     last_modified |-> second.loc.last_modified,
                                     changed_lines |-> d.changed_lines,
                                     changed_content |-> changed_content(d.diff_text),
                                     file_path |-> second.loc.fs_path,
                                     git_path |-> second.loc.git_path],
                     !.pc = "p_store_state"]

SecondClassify ==
    /\ second.pc = "p_classify"
    /\ IF is_change(second.loc.prev_state, second.loc.current_hash)
       THEN second_records(change_details(second.loc.prev_state, second.loc.clean_source, clock))
       ELSE /\ second' = [second EXCEPT !.pc = "p_store_state"]
            /\ UNCHANGED object_changes
    /\ UNCHANGED <<object_state, object_source, files, NotTheLedger>>

\* "always store current state", and the call returns
SecondStoreState ==
    /\ second.pc = "p_store_state"
    /\ object_state' = store_object_state(object_state, second.loc.obj, second.loc.current_hash,
                                          second.loc.last_modified, second.loc.fs_path, clock)
    /\ second' = second_returns(second)
    /\ UNCHANGED <<object_changes, object_source, files, NotTheLedger>>

\* the commit of the second process, when it has changed files, and its exit
SecondCommit(committed) ==
    /\ second.pc = "commit"
    /\ IF second.git_changed_files = <<>>
       THEN committed /\ UNCHANGED <<object_changes, git_log>>
       ELSE IF committed
       THEN /\ git_log' = Append(git_log, second.git_changed_files)
            /\ object_changes' = update_changes_with_commit(
                   object_changes, {second.changes[n].id : n \in 1..Len(second.changes)},
                   <<"sha", ToString(Len(git_log) + 1)>>)
       ELSE UNCHANGED <<object_changes, git_log>>
    /\ second' = [NoSecond EXCEPT !.pc = "exited"]
    /\ UNCHANGED <<object_state, object_source, code_dir, git_tree, NotTheLedger>>

SecondCycle ==
    \/ SecondStart
    \/ SecondFetch
    \/ SecondStoreSource
    \/ SecondGetPrev
    \/ SecondSaveFiles
    \/ SecondClassify
    \/ SecondStoreState
    \/ \E committed \in BOOLEAN : SecondCommit(committed)

\* two processes, each step of one between any two steps of the other
NextConcurrent == Cycle \/ SecondCycle

SpecConcurrent == Init /\ [][NextConcurrent]_vars

(* ---- what the claims speak of ---- *)

HasState(state, obj) == \E r \in state : r.obj = obj

\* the ObjectState of obj with the latest capture date
LatestState(state, obj) ==
    CHOOSE r \in state : r.obj = obj /\ \A o \in state : o.obj = obj => o.capture_date <= r.capture_date

\* a _process_object call is about to return
Returned == pc = "p_return"

\* fetch_object_source gave no text
Skipped == loc.current_source = None \/ loc.current_source = <<>>

\* the ChangeRecords made since the call began
NewRecords == SubSeq(object_changes, Len(pre.object_changes) + 1, Len(object_changes))

OldRecordsKept ==
    /\ Len(object_changes) >= Len(pre.object_changes)
    /\ SubSeq(object_changes, 1, Len(pre.object_changes)) = pre.object_changes

\* the call found no ObjectState, or one with another fingerprint
Transition ==
    IF Skipped THEN FALSE
    ELSE IF ~HasState(pre.object_state, loc.obj) THEN TRUE
    ELSE LatestState(pre.object_state, loc.obj).hash # loc.current_hash

\* the call found an ObjectState with the same fingerprint
PriorMatches ==
    IF Skipped \/ ~HasState(pre.object_state, loc.obj) THEN FALSE
    ELSE LatestState(pre.object_state, loc.obj).hash = loc.current_hash

\* the call found an ObjectState with another fingerprint
PriorDiffers ==
    IF Skipped \/ ~HasState(pre.object_state, loc.obj) THEN FALSE
    ELSE LatestState(pre.object_state, loc.obj).hash # loc.current_hash

\* len(text.splitlines()) counted from the line ends
LineCount(s) ==
    IF s = <<>> THEN 0
    ELSE Cardinality({i \in 1..Len(s) : s[i] \in {"NL", "CRLF"}})
         + (IF s[Len(s)] \in {"NL", "CRLF"} THEN 0 ELSE 1)

RecordsOf(o) == LET Of(r) == r.obj = o IN SelectSeq(object_changes, Of)

(* ---- C1 ---- *)

C1_PerCall ==
    Returned => /\ OldRecordsKept
                /\ Len(NewRecords) = (IF Transition THEN 1 ELSE 0)
                /\ Transition => /\ NewRecords[1].obj = loc.obj
                                 /\ NewRecords[1].new_hash = loc.current_hash

C1_OnlyInCall ==
    [][Len(object_changes') # Len(object_changes) => pc = "p_classify" /\ pc' = "p_store_state"]_vars

\* C1: without crashes, a _process_object call adds exactly one ChangeRecord when it
\* finds no ObjectState for the object or one with another fingerprint, and none
\* otherwise; no step outside that call's record_change changes the number of records
C1_OneRecordPerTransition == []C1_PerCall /\ C1_OnlyInCall

\* a changed object got its record
C1_Witness == Returned /\ PriorDiffers /\ Len(NewRecords) = 1

(* ---- C2 ---- *)

\* C2: with no call in flight, the last ChangeRecord of an object and its latest
\* ObjectState carry the same fingerprint, also after a crash or a failed ledger write
C2_RecordAndStateTogether ==
    pc \in {"idle", "done"} =>
        \A o \in Objects :
            RecordsOf(o) # <<>> =>
                /\ HasState(object_state, o)
                /\ LatestState(object_state, o).hash = RecordsOf(o)[Len(RecordsOf(o))].new_hash

(* ---- C3 ---- *)

\* C3: a call that finds no ObjectState adds one ChangeRecord; a call that sees the
\* source the previous call for the object saw adds none and returns no change
C3_Idempotent ==
    Returned /\ ~Skipped =>
        /\ ~HasState(pre.object_state, loc.obj) => Len(NewRecords) = 1
        /\ processed_source[loc.obj] = loc.current_source =>
               /\ Len(NewRecords) = 0
               /\ loc.change = NoneDict

\* the second of two calls with the same source, the first of which made the record
C3_Witness ==
    /\ Returned /\ ~Skipped
    /\ processed_source[loc.obj] = loc.current_source
    /\ Len(RecordsOf(loc.obj)) = 1

(* ---- C4 ---- *)

\* C4: a call whose fetch gave no text or empty text returns no change and leaves
\* object_state, object_changes, object_source, CODE_DIR and the git tree as they were
C4_SkipLeavesAll == Returned /\ Skipped => Snapshot = pre /\ loc.change = NoneDict

\* an object tracked before now has empty source
C4_Witness == Returned /\ loc.current_source = <<>> /\ HasState(pre.object_state, loc.obj)

(* ---- C5 ---- *)

\* C5: after a call that did not skip, the latest ObjectState of the object has the
\* hash just computed, the last_modified observed and the current date
C5_StateRefreshed ==
    Returned /\ ~Skipped =>
        /\ HasState(object_state, loc.obj)
        /\ LatestState(object_state, loc.obj).hash = loc.current_hash
        /\ LatestState(object_state, loc.obj).last_modified = loc.last_modified
        /\ LatestState(object_state, loc.obj).capture_date = clock

\* an unchanged object, last captured on an earlier day, has been stored again
C5_Witness ==
    /\ Returned /\ PriorMatches
    /\ LatestState(pre.object_state, loc.obj).capture_date < clock

(* ---- C6 ---- *)

\* C6: a call that finds no ObjectState adds one ChangeRecord with old_hash absent,
\* new_hash the current hash, the one-line new-object note as diff_summary and
\* changed_lines the number of lines of the clean source
C6_NewObjectRecord ==
    Returned /\ ~Skipped /\ ~HasState(pre.object_state, loc.obj) =>
        /\ Len(NewRecords) = 1
        /\ NewRecords[1].obj = loc.obj
        /\ NewRecords[1].old_hash = None
        /\ NewRecords[1].new_hash = loc.current_hash
        /\ Len(NewRecords[1].diff_summary) = 1
        /\ NewRecords[1].diff_summary[1][1] = "New object created on"
        /\ NewRecords[1].changed_lines = LineCount(loc.clean_source)

\* a new object of more than one line
C6_Witness ==
    /\ Returned /\ ~Skipped /\ ~HasState(pre.object_state, loc.obj)
    /\ Len(NewRecords) = 1
    /\ NewRecords[1].changed_lines >= 2

(* ---- C7 ---- *)

\* C7: a call that finds an ObjectState with the current hash returns no change and
\* leaves object_changes and object_source as they were
C7_UnchangedWritesStateOnly ==
    Returned /\ PriorMatches =>
        /\ loc.change = NoneDict
        /\ object_changes = pre.object_changes
        /\ object_source = pre.object_source

\* an unchanged object whose ObjectState was written
C7_Witness == Returned /\ PriorMatches /\ object_state # pre.object_state

(* ---- C8 ---- *)

\* the text the snapshot store held under hash h when the call began
TextUnder(h) == IF h \in DOMAIN pre.object_source THEN pre.object_source[h] ELSE <<>>

\* C8: a call that finds an ObjectState with another hash adds one ChangeRecord with
\* old_hash that hash, new_hash the current hash, and as diff_summary the unified diff
\* from the text stored under the old hash to the current clean text
C8_ChangedRecord ==
    Returned /\ PriorDiffers =>
        /\ Len(NewRecords) = 1
        /\ NewRecords[1].obj = loc.obj
        /\ NewRecords[1].old_hash = LatestState(pre.object_state, loc.obj).hash
        /\ NewRecords[1].new_hash = loc.current_hash
        /\ NewRecords[1].diff_summary =
               unified_diff(splitlines(TextUnder(LatestState(pre.object_state, loc.obj).hash)),
                            splitlines(loc.clean_source))

\* a changed object whose record holds a diff
C8_Witness ==
    /\ Returned /\ PriorDiffers
    /\ Len(NewRecords) = 1
    /\ Len(NewRecords[1].diff_summary) > 3

(* ---- C9 ---- *)

\* C9: no step removes a hash from object_source or changes the text stored under it
C9_WriteOnce ==
    [][\A h \in DOMAIN object_source :
          h \in DOMAIN object_source' /\ object_source'[h] = object_source[h]]_vars

\* store_source_code has run with a text other than the one stored under the hash
C9_Witness ==
    /\ pc = "p_get_prev"
    /\ loc.current_hash \in DOMAIN pre.object_source
    /\ pre.object_source[loc.current_hash] # loc.clean_source
    /\ object_source[loc.current_hash] = pre.object_source[loc.current_hash]

(* ---- C10 ---- *)

\* C10: two sources that differ only in comment content have the same fingerprint
C10_CommentInsensitive == nfp # NoneDict => nfp.a = nfp.b

(* ---- C11 ---- *)

\* C11: two sources that differ only in the kind or length of whitespace runs have
\* the same fingerprint
C11_WhitespaceInsensitive == IF nfp = NoneDict THEN TRUE ELSE nfp.a = nfp.b

(* ---- C12 ---- *)

\* the lines of a diff after its two file-header lines that start with "+" or "-"
ChangeLinesOf(diff_text) ==
    {k \in 3..Len(diff_text) : diff_text[k] # <<>> /\ diff_text[k][1] \in {"+", "-"}}

\* C12: the changed_lines generate_diff returns is the number of diff lines that
\* start with + or -, the two file-header lines not counted
C12_ChangedLineCount ==
    IF ret = NoneDict THEN TRUE
    ELSE ret.changed_lines = Cardinality(ChangeLinesOf(ret.diff_text))

\* the records whose notified flag this step turns from 0 to 1
NewlyNotified ==
    {n \in 1..Len(object_changes) :
        object_changes[n].notified = 0 /\ object_changes'[n].notified = 1}

\* the step in which send_daily_summary ran
SummarySent == pc = "summary" /\ pc' = "done" /\ tracker'.summary # NoneDict

\* C13: a record's notified flag turns true only in the step in which the notifier
\* answered success for a batch holding that record, and that step marks exactly
\* the records of the batch it handed over; no other step marks any record.
C13_MarkedOnlyWhenDelivered ==
    [][IF SummarySent
       THEN NewlyNotified = (IF tracker'.summary.result THEN tracker'.summary.changes ELSE {})
       ELSE NewlyNotified = {}]_vars

\* a delivered batch is marked while an older record stays outside it
C13_Witness ==
    /\ pc = "done"
    /\ tracker.summary # NoneDict
    /\ tracker.summary.result
    /\ tracker.summary.changes # {}
    /\ \A n \in tracker.summary.changes : object_changes[n].notified = 1
    /\ \E n \in 1..Len(object_changes) : n \notin tracker.summary.changes

\* C14: when the delivery fails every record of the attempted batch keeps
\* notified = 0, and the next daily-summary attempt, made on the same or on the
\* following day, selects every record of the failed batch again.
C14_FailedBatchRetried ==
    [][IF SummarySent
       THEN /\ tracker'.summary.result
               \/ \A n \in tracker'.summary.changes : object_changes'[n].notified = 0
            /\ IF ret = NoneDict THEN TRUE
               ELSE (~ret.summary.result /\ clock <= ret.day + 1)
                        => ret.summary.changes \subseteq tracker'.summary.changes
       ELSE TRUE]_vars

\* C15: get_unnotified_changes(hours) returns exactly the unnotified records that
\* were recorded not longer than `hours` hours before now.
C15_ExactlyWindow ==
    IF ret = NoneDict THEN TRUE
    ELSE ret.changes = {n \in 1..Len(call.made_at) :
                           call.flags[n] = 0 /\ call.made_at[n] >= call.now - call.hours}

\* C16: once mark_changes_as_notified has run on every id get_unnotified_changes
\* returned, get_unnotified_changes called again at once returns nothing, and a
\* record whose notified flag is set is in no batch any later selection returns.
C16_MarkedNeverReturned ==
    /\ [](IF pc = "done" /\ tracker.summary # NoneDict
          THEN tracker.summary.result => get_unnotified_changes(object_changes, clock) = {}
          ELSE TRUE)
    /\ [][IF SummarySent
          THEN \A n \in tracker'.summary.changes : object_changes[n].notified = 0
          ELSE TRUE]_vars

\* a batch of two was delivered and marked while a later selection is still to come
C16_Witness ==
    /\ pc = "done"
    /\ tracker.summary # NoneDict
    /\ tracker.summary.result
    /\ Cardinality(tracker.summary.changes) >= 2
    /\ \A n \in tracker.summary.changes : object_changes[n].notified = 1
    /\ clock < MaxDay

\* the hour and the day a time falls on, and the start of an hour of a day
HourOfDay(time) == (time \div SubHour) % HoursPerDay
DayOf(time) == time \div (SubHour * HoursPerDay)
StartOf(day, hour) == (day * HoursPerDay + hour) * SubHour

\* the smallest multiple of interval strictly greater than hour
NextMultiple(hour, interval) ==
    CHOOSE m \in (hour + 1)..(hour + interval) :
        m % interval = 0 /\ \A k \in (hour + 1)..(m - 1) : k % interval # 0

\* C17: calculate_next_runtime(interval_hours) returns the start (minute 0, second 0)
\* of the hour that is the smallest multiple of interval_hours strictly greater than
\* the current hour, on the same day when that multiple is below 24 and hour 0 of
\* the next day otherwise; the result is strictly after now.
C17_NextRuntime ==
    IF ret = NoneDict THEN TRUE
    ELSE /\ ret.next_time > call.now
         /\ ret.next_time =
                IF NextMultiple(HourOfDay(call.now), call.interval_hours) < 24
                THEN StartOf(DayOf(call.now),
                             NextMultiple(HourOfDay(call.now), call.interval_hours))
                ELSE StartOf(DayOf(call.now) + 1, 0)

\* interval 3 at a time within hour 23 that is not the start of the hour: the
\* result is hour 0 of the next day
C17_Witness ==
    /\ ret # NoneDict
    /\ call.interval_hours = 3
    /\ HourOfDay(call.now) = 23
    /\ call.now % SubHour # 0
    /\ ret.next_time = StartOf(DayOf(call.now) + 1, 0)

\* the last instant of a day, the service asleep
DayIsOver ==
    /\ pc = "idle"
    /\ ~is_due
    /\ day_of(service.now + 1) # day_of(service.now)

\* C18: a service that runs sends the daily summary once per calendar day: when a
\* day that the service ran through from midnight is over, exactly one cycle of
\* that day has sent the summary.
C18_OncePerDay ==
    (DayIsOver /\ ret.whole_day) => ret.sent = 1

\* a scan has run to its end and returned its results
ScanCompleted == pc = "done" /\ cycle_result.returned = "results"

\* C19: after a scan was interrupted behind some processed objects, the rows of the
\* processed objects are still in the ledger and the next scan processes every
\* object the interrupted one did not reach, also when the interrupted scan was
\* the first run: once a scan has run to its end with the first object of the
\* list processed, every object whose source can be fetched has an ObjectState.
C19_NextScanCatchesUp ==
    (ScanCompleted /\ HasState(object_state, ObjF))
        => \A o \in Objects : db_source[o] \notin Unfetchable => HasState(object_state, o)

\* the step in which a scan asks the database for its objects
ScanStarts == pc = "idle" /\ pc' \in {"p_fetch", "summary"}

\* the objects the scan got from find_custom_objects
Asked == {tracker'.objects[n].obj : n \in 1..Len(tracker'.objects)}

\* C20: a scan asks for every matching object, whatever its modification time,
\* exactly when the export directory holds nothing as the scan starts; otherwise it
\* asks only for the objects modified within the look-back window.
C20_FullScanIffNoExport ==
    [][ScanStarts =>
          IF \A o \in Objects : code_dir[o] = None
          THEN Asked = Objects
          ELSE Asked = {o \in Objects : db_modified[o] > clock - DaysLookback}]_vars

\* a scan that began over a non-empty export directory got one object of the two
C20_Witness ==
    /\ pc = "p_fetch"
    /\ tracker.index = 1
    /\ Len(tracker.objects) = 1
    /\ \E o \in Objects : pre.code_dir[o] # None

(* ---- C21 ---- *)

\* commit_changes was called in this scan and returned None
CommitFailed ==
    /\ pc = "summary"
    /\ tracker.git_changed_files # <<>>
    /\ tracker.commit_sha = None

\* the cycle returned the result of a scan that made records and got no commit
ReturnedUncommitted ==
    IF pc = "done" /\ cycle_result.returned = "results"
    THEN IF cycle_result.changed_objects > 0 THEN cycle_result.git_commit = None ELSE FALSE
    ELSE FALSE

\* the rows with these ids are in the ledger without a commit hash and the
\* ObjectState of their objects carries their new hash
KeptUncommitted(ids) ==
    \A id \in ids :
        /\ id <= Len(object_changes)
        /\ object_changes[id].id = id
        /\ object_changes[id].git_commit_sha = None
        /\ HasState(object_state, object_changes[id].obj)
        /\ LatestState(object_state, object_changes[id].obj).hash = object_changes[id].new_hash

\* C21: when commit_changes returns no hash, every ChangeRecord made in that scan
\* stays in the ledger with git_commit_sha absent, the ObjectState of its object
\* stays at the new hash, and the scan returns its result dict (changed_objects
\* counted, git_commit absent) and not a failure.
C21_FailedCommitKeepsRecords ==
    /\ [](CommitFailed =>
            KeptUncommitted({tracker.changes[n].id : n \in 1..Len(tracker.changes)}))
    /\ [](ReturnedUncommitted =>
            KeptUncommitted({cycle_result.changes[n] : n \in 1..Len(cycle_result.changes)}))
    /\ [][(CommitFailed /\ pc' # pc) =>
            /\ pc' = "done"
            /\ cycle_result'.returned = "results"
            /\ cycle_result'.changed_objects = tracker.change_count
            /\ cycle_result'.changes = [n \in 1..Len(tracker.changes) |-> tracker.changes[n].id]
            /\ cycle_result'.git_commit = None]_vars

\* a cycle has returned the result of a scan with two records and a failed commit
C21_Witness ==
    /\ ReturnedUncommitted
    /\ cycle_result.changed_objects = 2

(* ---- C22 ---- *)

\* the step in which a call of _process_object raised
ProcessingFailed ==
    /\ pc \in {"p_fetch", "p_store_source", "p_get_prev", "p_save_fs", "p_save_git",
                "p_classify", "p_store_state"}
    /\ pc' = "done"

\* C22: when a call inside _process_object raises, the tracking cycle returns no
\* result, a single run exits with status 1, and every ledger row written before
\* the failure, those of the objects processed earlier in the scan included, is
\* still in the ledger.
C22_FailureSurfaces ==
    [][ProcessingFailed =>
          /\ cycle_result'.returned = "None"
          /\ run_single_scan(cycle_result') = 1
          /\ object_changes' = object_changes
          /\ object_state' = object_state
          /\ object_source' = object_source
          /\ \A n \in 1..Len(tracker.changes) :
                /\ tracker.changes[n].id <= Len(object_changes')
                /\ object_changes'[tracker.changes[n].id].obj = tracker.changes[n].obj]_vars

\* the second object's processing failed behind its snapshot: the cycle returned
\* nothing, the first object's record and state are in the ledger
C22_Witness ==
    /\ pc = "done"
    /\ cycle_result.returned = "None"
    /\ hash_code(normalize_code(SrcV2).canonical) \in DOMAIN object_source
    /\ ~HasState(object_state, ObjP)
    /\ HasState(object_state, ObjF)
    /\ RecordsOf(ObjF) # <<>>

(* ---- C23 ---- *)

\* C23: a cycle whose scan fails because the database is unreachable still
\* evaluates the daily summary: when such a cycle ends in the notification hour,
\* it has sent the summary of the unnotified ChangeRecords.
C23_SummaryDespiteOutage ==
    (pc = "done" /\ is_notification_hour) => ret.sent >= 1

(* ---- C24 ---- *)

\* the scan is past its loop, or found no object, and made no ChangeRecord
NothingChanged == pc \in {"commit", "summary"} /\ tracker.change_count = 0

\* C24: a scan that finds no object, or finds objects none of which changed, ends
\* well: no commit is made for it, scan_for_changes returns a result with
\* changed_objects = 0 and total_objects the number of objects found, the cycle
\* returns that result and a single run exits with status 0.
C24_EmptyScanSucceeds ==
    /\ [](NothingChanged => tracker.git_changed_files = <<>> /\ tracker.commit_sha = None)
    /\ [][NothingChanged =>
            /\ git_log' = git_log
            /\ git_tree' = git_tree
            /\ pc' = "done" =>
                  /\ cycle_result'.returned = "results"
                  /\ cycle_result'.changed_objects = 0
                  /\ cycle_result'.changes = <<>>
                  /\ cycle_result'.total_objects = Len(tracker.objects)
                  /\ run_single_scan(cycle_result') = 0]_vars

\* a cycle has returned the result of a scan that found objects, none changed
C24_Witness ==
    /\ pc = "done"
    /\ cycle_result.returned = "results"
    /\ cycle_result.total_objects > 0
    /\ cycle_result.changed_objects = 0

(* ---- C25 ---- *)

\* row b is row a but for the commit hash and the notified flag
SameButCommitAndFlag(a, b) ==
    [b EXCEPT !.git_commit_sha = a.git_commit_sha, !.notified = a.notified] = a

\* C25: no step removes a ChangeRecord; a step changes nothing of an existing
\* ChangeRecord but its commit hash, and that only where update_change_with_commit
\* runs, and its notified flag, and that only where mark_changes_as_notified runs
\* and only from 0 to 1; the summary phase leaves object_state and object_source
\* as they are.
C25_RecordsOnlyStamped ==
    [][/\ Len(object_changes') >= Len(object_changes)
       /\ \A n \in 1..Len(object_changes) :
             /\ SameButCommitAndFlag(object_changes[n], object_changes'[n])
             /\ object_changes'[n].git_commit_sha # object_changes[n].git_commit_sha
                   => pc = "commit"
             /\ object_changes'[n].notified # object_changes[n].notified
                   => /\ pc = "summary"
                      /\ object_changes[n].notified = 0
                      /\ object_changes'[n].notified = 1
       /\ pc = "summary"
             => object_state' = object_state /\ object_source' = object_source]_vars

\* a record that got its commit hash and its notified flag, with a younger one
C25_Witness ==
    \E n \in 1..Len(object_changes) :
        /\ object_changes[n].git_commit_sha # None
        /\ object_changes[n].notified = 1
        /\ n < Len(object_changes)

(* ---- C26 ---- *)

\* C26: the result of a completed scan has total_objects equal to the number of
\* objects find_custom_objects returned, skipped ones included, and changed_objects
\* equal to the number of ChangeRecords the scan added, which is the length of its
\* changes list and at most total_objects.
C26_ResultCounts ==
    [][(pc = "summary" /\ pc' = "done") =>
          /\ cycle_result'.returned = "results"
          /\ cycle_result'.total_objects = Len(tracker.objects)
          /\ cycle_result'.changed_objects = Len(object_changes) - tracker.records_before
          /\ cycle_result'.changed_objects = Len(cycle_result'.changes)
          /\ cycle_result'.changed_objects <= cycle_result'.total_objects]_vars

\* a result that counts two objects, one of them skipped, and one change
C26_Witness ==
    /\ pc = "done"
    /\ cycle_result.returned = "results"
    /\ cycle_result.total_objects = 2
    /\ cycle_result.changed_objects = 1
    /\ db_source[ObjP] \in Unfetchable

(* ---- C27 ---- *)

\* text b is text a with every CRLF made a line feed and nothing else changed
OnlyLineEndsDiffer(a, b) ==
    /\ Len(b) = Len(a)
    /\ \A i \in 1..Len(a) : b[i] = (IF a[i] = "CRLF" THEN "NL" ELSE a[i])

\* C27: the clean text of a processed object is its raw source with every CRLF
\* replaced by a line feed and nothing else changed, and after the call the
\* snapshot stored under the object's hash, the file in the export directory and
\* the file in the git working tree all hold exactly that clean text.
C27_CleanStoredVerbatim ==
    (Returned /\ ~Skipped) =>
        /\ OnlyLineEndsDiffer(loc.current_source, loc.clean_source)
        /\ object_source[loc.current_hash] = loc.clean_source
        /\ code_dir[loc.obj] = loc.clean_source
        /\ git_tree[loc.obj] = loc.clean_source

(* ---- C28 ---- *)

\* C28: two sources that are the same text except that one begins with the bare
\* declaration <TYPE> <NAME> and the other with CREATE OR REPLACE <TYPE> <NAME>
\* have the same fingerprint, for each of the eight object types.
C28_PrefixInsensitive ==
    IF nfp = NoneDict THEN TRUE
    ELSE nb = CreateOrReplace(na) => nfp.a = nfp.b

(* ---- C29 ---- *)

\* the lines a unified diff adds: the "+" lines of its hunk, which follows the two
\* file header lines and the range line
AddedLines(diff_text) ==
    LET hunk == SubSeq(diff_text, 4, Len(diff_text))
        Plus(line) == line[1] = "+"
    IN SelectSeq(hunk, Plus)

\* C29: the preview is the lines of the diff summary that start with + and not
\* with +++, in diff order, the first 10 of them, followed by an ellipsis line
\* exactly when there are more than 10; every added line of the diff is among
\* the lines the preview is taken from.
C29_PreviewOfAddedLines ==
    IF ret = NoneDict THEN TRUE
    ELSE LET added == AddedLines(ret.diff_text)
         IN ret.changed_content =
                SubSeq(added, 1, Min(10, Len(added)))
                \o (IF Len(added) > 10 THEN << <<"...">> >> ELSE <<>>)

(* ---- C30 ---- *)

\* C30: normalize_code called with no source returns the pair of empty texts,
\* the clean text and the canonical text both empty, as an ordinary result.
C30_NoneGivesEmptyTexts ==
    IF ret = NoneDict THEN TRUE
    ELSE call.code = None => (ret.clean = <<>> /\ ret.canonical = <<>>)

C30_Witness ==
    /\ call.code = None
    /\ ret = [clean |-> <<>>, canonical |-> <<>>]

(* ---- C31 ---- *)

\* C31: with two scan cycles running against the same ledger, the read of the
\* latest ObjectState and the writes that follow it are not interleaved with those
\* of the other cycle: whenever a ChangeRecord is written, its prior fingerprint
\* is the fingerprint of the object's latest ObjectState at that moment (absent
\* when there is none) and its new fingerprint is another one, so that one
\* transition of the object yields one ChangeRecord.
C31_ReadAndWriteTogether ==
    [][Len(object_changes') > Len(object_changes) =>
          LET r == object_changes'[Len(object_changes')]
              latest == IF HasState(object_state, r.obj)
                        THEN LatestState(object_state, r.obj).hash ELSE None
          IN r.old_hash = latest /\ r.new_hash # latest]_vars

(* ---- C32 ---- *)

\* record n has no commit reference although a later record has one: commits
\* succeeded again after the scan of record n
LeftBehind(n) ==
    /\ n <= Len(object_changes)
    /\ object_changes[n].git_commit_sha = None
    /\ \E m \in (n + 1)..Len(object_changes) : object_changes[m].git_commit_sha # None

HasCommit(n) ==
    /\ n <= Len(object_changes)
    /\ object_changes[n].git_commit_sha # None

\* C32: every ChangeRecord eventually receives a commit reference once commits
\* succeed again: a record whose own scan's commit failed gets its reference
\* attached by a later cycle.
C32_EventuallyCommitted ==
    \A n \in 1..MaxChanges : LeftBehind(n) ~> HasCommit(n)

(* ---- C33 ---- *)

\* the rows of object_changes the running scan created
CreatedInScan == (tracker.records_before + 1)..Len(object_changes)

\* the step in which commit_changes is called and answers
CommitAnswers == pc = "commit" /\ tracker.git_changed_files # <<>> /\ pc' = "summary"

\* C33: when the commit of a scan returns a reference, that reference is attached
\* to every ChangeRecord created in that scan, it is on no ChangeRecord of another
\* scan, and nothing else of any record changes; when the commit returns none,
\* no record changes.
C33_ReferenceOnOwnRecords ==
    [][CommitAnswers =>
          /\ Len(object_changes') = Len(object_changes)
          /\ \A n \in 1..Len(object_changes) :
                IF tracker'.commit_sha # None /\ n \in CreatedInScan
                THEN object_changes'[n] =
                         [object_changes[n] EXCEPT !.git_commit_sha = tracker'.commit_sha]
                ELSE /\ object_changes'[n] = object_changes[n]
                     /\ object_changes'[n].git_commit_sha # tracker'.commit_sha
                            \/ tracker'.commit_sha = None]_vars

\* a second scan's commit returned a reference: its record carries it, the record
\* of the first scan carries another one
C33_Witness ==
    /\ pc = "summary"
    /\ tracker.commit_sha # None
    /\ tracker.records_before >= 1
    /\ tracker.records_before < Len(object_changes)
    /\ object_changes[Len(object_changes)].git_commit_sha = tracker.commit_sha
    /\ object_changes[1].git_commit_sha \notin {None, tracker.commit_sha}

(* ---- C34 ---- *)

\* the call found an ObjectState with another fingerprint and no text under it
PriorTextMissing ==
    /\ PriorDiffers
    /\ LatestState(pre.object_state, loc.obj).hash \notin DOMAIN pre.object_source

\* C34: when the fingerprint of an object differs from its prior state and no
\* snapshot text is stored under the prior fingerprint, the call goes through:
\* it writes one ChangeRecord, from the prior to the new fingerprint, whose diff
\* and line count are those of the diff of the empty text and the clean source,
\* and the ObjectState of the object gets the new fingerprint.
C34_MissingSnapshotDiffsEmpty ==
    (Returned /\ PriorTextMissing) =>
        /\ OldRecordsKept
        /\ Len(NewRecords) = 1
        /\ NewRecords[1].obj = loc.obj
        /\ NewRecords[1].old_hash = LatestState(pre.object_state, loc.obj).hash
        /\ NewRecords[1].new_hash = loc.current_hash
        /\ NewRecords[1].diff_summary = generate_diff(<<>>, loc.clean_source).diff_text
        /\ NewRecords[1].changed_lines = generate_diff(<<>>, loc.clean_source).changed_lines
        /\ LatestState(object_state, loc.obj).hash = loc.current_hash

C34_Witness ==
    /\ Returned
    /\ PriorTextMissing
    /\ Len(NewRecords) = 1
    /\ NewRecords[1].old_hash # None

(* ---- C35 ---- *)

\* C35: in service mode with a transport that always succeeds, every ChangeRecord
\* that is created eventually has notified = 1, for every scan interval and
\* notification hour. The summary takes the unnotified records whose change date
\* is not before the date of 24 hours ago, so a record that is not notified when
\* the day after its change date is over is never notified: eventually means by
\* the end of that day.
C35_EventuallyNotified ==
    DayIsOver =>
        \A n \in 1..Len(object_changes) :
            object_changes[n].change_date < day_of(service.now) =>
                object_changes[n].notified = 1

(* ---- C36 ---- *)

\* C36: in every reachable state of the ledger, also after a crash or a failed
\* call at any point, the fingerprint of each ObjectState row and the new
\* fingerprint of each ChangeRecord has a text stored under it in object_source.
C36_SnapshotBeforeReference ==
    /\ \A r \in object_state : r.hash \in DOMAIN object_source
    /\ \A n \in 1..Len(object_changes) : object_changes[n].new_hash \in DOMAIN object_source

\* a cycle ended between record_change and store_object_state: no cycle runs,
\* a ChangeRecord is there and its object has no ObjectState
C36_Witness ==
    /\ pc = "idle"
    /\ \E n \in 1..Len(object_changes) :
          /\ ~HasState(object_state, object_changes[n].obj)
          /\ object_changes[n].new_hash \in DOMAIN object_source

(* ---- C37 ---- *)

\* the records rs, in creation order, lead from no fingerprint to the last one
IsChain(rs) ==
    /\ rs # <<>> => rs[1].old_hash = None
    /\ \A k \in 2..Len(rs) : rs[k].old_hash = rs[k - 1].new_hash
    /\ \A k \in 1..Len(rs) : rs[k].old_hash # rs[k].new_hash

\* the call for o stands between its record_change and its store_object_state
StateToCome(o) == pc = "p_store_state" /\ loc.obj = o

\* C37: in crash-free sequential operation the ChangeRecords of one identity, in
\* creation order, form a chain: the first has an absent prior fingerprint, each
\* later one has the new fingerprint of the record before it as its prior
\* fingerprint, no record has equal prior and new fingerprint, and the latest
\* ObjectState has the new fingerprint of the last record (once the call that
\* wrote the record has stored the state).
C37_RecordsFormChain ==
    \A o \in Objects :
        /\ IsChain(RecordsOf(o))
        /\ (RecordsOf(o) # <<>> /\ ~StateToCome(o)) =>
               /\ HasState(object_state, o)
               /\ LatestState(object_state, o).hash = RecordsOf(o)[Len(RecordsOf(o))].new_hash

\* an identity with a chain of two records, written on two days
C37_Witness ==
    /\ pc = "idle"
    /\ Len(RecordsOf(ObjP)) = 2
    /\ RecordsOf(ObjP)[1].change_date # RecordsOf(ObjP)[2].change_date
    /\ RecordsOf(ObjP)[2].old_hash = RecordsOf(ObjP)[1].new_hash
    /\ LatestState(object_state, ObjP).hash = RecordsOf(ObjP)[2].new_hash

(* ---- C38 ---- *)

\* the step in which store_object_state runs
StoreStep == pc = "p_store_state" /\ pc' = "p_return"

OneRowPerDate ==
    \A r1, r2 \in object_state :
        (r1.obj = r2.obj /\ r1.capture_date = r2.capture_date) => r1 = r2

\* the rows of a table object_state but the one of obj with the capture date day
RowsBut(state, obj, day) == {r \in state : ~(r.obj = obj /\ r.capture_date = day)}

\* store_object_state replaces the row of the object and the day, leaves every other
\* row, and get_previous_state then returns the fingerprint it wrote
StoreReplaces ==
    [][StoreStep =>
          /\ RowsBut(object_state', loc.obj, clock) = RowsBut(object_state, loc.obj, clock)
          /\ get_previous_state(object_state', object_source', loc.obj).hash = loc.current_hash]_vars

\* and no other step changes what get_previous_state returns
OnlyStoreWrites ==
    [][~StoreStep =>
          \A o \in Objects :
              get_previous_state(object_state', object_source', o)
                  = get_previous_state(object_state, object_source, o)]_vars

\* C38: the ledger holds at most one ObjectState row per identity and capture
\* date: a second processing of an identity on the same date replaces the row of
\* that date, and with a clock that never goes back get_previous_state returns
\* the fingerprint that the most recent store_object_state wrote for the identity.
C38_OneStatePerDate == []OneRowPerDate /\ StoreReplaces /\ OnlyStoreWrites

\* the second processing of the day has replaced the row that the first one wrote
\* with another fingerprint
C38_Witness ==
    /\ pc = "p_return"
    /\ \E r \in pre.object_state :
          /\ r.obj = loc.obj
          /\ r.capture_date = clock
          /\ r.hash # loc.current_hash
    /\ \A r \in object_state :
          (r.obj = loc.obj /\ r.capture_date = clock) => r.hash = loc.current_hash

(* ---- C39 ---- *)

\* the version-control paths of the objects of the records the running scan created,
\* in the order of the records
PathsOfCreated ==
    [k \in 1..(Len(object_changes) - tracker.records_before) |->
        git_path_of(object_changes[tracker.records_before + k].obj)]

\* at the commit step the paths to be passed are those of the records of the scan;
\* commit_changes is called exactly when there is one
PathsAreRecords ==
    pc = "commit" => tracker.git_changed_files = PathsOfCreated

\* a commit that is made holds the paths passed and no other
CommitHoldsPaths ==
    [][Len(git_log') # Len(git_log) =>
          /\ pc = "commit"
          /\ PathsOfCreated # <<>>
          /\ git_log' = Append(git_log, PathsOfCreated)]_vars

\* a cycle that returns with records of its scan in the ledger has been through
\* the commit step
ReturnsThroughCommit ==
    [][(pc \notin {"idle", "done"} /\ pc' = "done" /\ CreatedInScan # {}) => pc = "summary"]_vars

C40_ClosedAfterReturn ==
    pc = "done" => tracker.connection = "closed" /\ tracker.db_conn = "closed"

\* a cycle came back with None after the ledger had taken a record but not its state
C40_Witness ==
    /\ pc = "done"
    /\ cycle_result.returned = "None"
    /\ Len(object_changes) = 1
    /\ object_state = {}
    /\ tracker.connection = "closed"
    /\ tracker.db_conn = "closed"

============================================================================
